---- MODULE Spec2Model ----
(***************************************************************************)
(* State-machine model of the ConfigurableDashboard Lightning components:  *)
(*   - HM_DataSourceQueryBuilder, single-page layout (src/unnamed/part_001) *)
(*   - HM_DataSourceQueryBuilder, four-step wizard   (src/unnamed/part_002) *)
(*   - HM_ConfigurableList (lwc/hmConfigurableList/hmConfigurableList.js)   *)
(*                                                                         *)
(* Text is modelled as a sequence of tokens.  A value typed by the user is *)
(* a sequence of one-character strings; the fixed parts of the templates   *)
(* of the code are tokens whose concatenation is the string the code       *)
(* builds.  null is the string NULL where the other values are strings and *)
(* the empty tuple where they are numbers.                                 *)
(***************************************************************************)
EXTENDS Integers, Sequences, FiniteSets, TLC

VARIABLES
  \* ---- query builder (single page and wizard share these fields) ----
  formData,              \* [name, dashboardComponentId, order, rowIconName]
  componentType,         \* type of the selected dashboard component (wire adapter)
  page2Data,             \* [selectedObjectApiName]
  queryType,             \* "List" | "Aggregate"
  aggregateFunction,
  aggregateFieldApiName,
  allObjects,            \* objects returned by getAccessibleObjects
  allFields,             \* field descriptions of the loaded object
  selectedFieldApiNames,
  fieldCache,            \* set of objects whose fields are cached
  whereConditions,
  conditionIdCounter,
  activeOwnerFilter,
  queryLimit,            \* <<>> is null, <<n>> is the number n
  isLoading,
  isSaving,
  error,
  autoRefreshTimeoutId,  \* TRUE while the debounce timer of the preview is armed
  currentStep,           \* wizard only
  recordId,              \* NULL for a new record
  \* the preview table of the single-page builder (the one of the wizard is
  \* not followed)
  queryResults,          \* rows of the preview table
  queryError,
  isQueryLoading,
  \* ---- the platform: requests in flight and the stored record ----
  objectsRequest,        \* getAccessibleObjects in flight
  fieldRequests,         \* getObjectFields in flight: sequence of [obj, then]
  loadRequest,           \* loadDataSource in flight
  saveCalls,             \* saveDataSourceComplete / saveDataSourceBasicInfo calls in flight
  serverRecord,          \* <<>> or the call the server stored last
  previewRequests,       \* executePreviewQuery calls in flight
  lastPreview,           \* history: <<>> or the rows the preview issued last asks for
  \* ---- configurable list ----
  componentConfig,
  columns,
  rows,
  filteredRows,
  listIsLoading,
  errorMessage,
  filters,
  activeFilter,
  currentPage,
  recordsPerPage,
  enablePagination,
  totalPages,
  sortColumn,
  sortDirection,
  enableColumnSorting,
  cachedVisibleColumns,
  cachedVisibleColumnsFilter,
  queryRequests          \* executeComponentQuery calls in flight

previewVars == <<queryResults, queryError, isQueryLoading, previewRequests, lastPreview>>

builderVars == <<formData, componentType, page2Data, queryType, aggregateFunction,
                 aggregateFieldApiName, allObjects, allFields, selectedFieldApiNames,
                 fieldCache, whereConditions, conditionIdCounter, activeOwnerFilter,
                 queryLimit, isLoading, isSaving, error, autoRefreshTimeoutId,
                 currentStep, recordId, objectsRequest, fieldRequests, loadRequest,
                 saveCalls, serverRecord, previewVars>>

listVars == <<componentConfig, columns, rows, filteredRows, listIsLoading, errorMessage,
              filters, activeFilter, currentPage, recordsPerPage, enablePagination,
              totalPages, sortColumn, sortDirection, enableColumnSorting,
              cachedVisibleColumns, cachedVisibleColumnsFilter, queryRequests>>

vars == <<builderVars, listVars>>

NULL == "<null>"

(***************************************************************************)
(* Bounds of the model.                                                    *)
(***************************************************************************)
MaxConditions == 1     \* rows of the WHERE builder in the query specification
MaxWhere == 3          \* rows of the WHERE builder in the grouping specification
MaxId == 3             \* cap of conditionIdCounter
MaxPending == 1        \* getObjectFields requests in flight
MaxSaves == 1          \* save calls followed: those in flight and the stored one

(***************************************************************************)
(* Generic helpers on sequences.                                           *)
(***************************************************************************)
Range(s) == {s[i] : i \in 1..Len(s)}

RECURSIVE SeqFilter(_, _)
\* Array.prototype.filter with the predicate given as the set of kept elements
SeqFilter(s, keep) ==
  IF s = <<>> THEN <<>>
  ELSE (IF Head(s) \in keep THEN <<Head(s)>> ELSE <<>>) \o SeqFilter(Tail(s), keep)

RECURSIVE Flatten(_)
Flatten(ss) == IF ss = <<>> THEN <<>> ELSE Head(ss) \o Flatten(Tail(ss))

RECURSIVE Join(_, _)
\* Array.prototype.join: the elements of ss separated by sep
Join(ss, sep) ==
  IF ss = <<>> THEN <<>>
  ELSE IF Len(ss) = 1 THEN Head(ss)
  ELSE Head(ss) \o sep \o Join(Tail(ss), sep)

Contains(s, t) ==
  \E i \in 0..(Len(s) - Len(t)) : SubSeq(s, i + 1, i + Len(t)) = t

Count(s, x) == Cardinality({i \in 1..Len(s) : s[i] = x})

Digits == {"0", "1", "2", "3", "4", "5", "6", "7", "8", "9"}

RECURSIVE Trim(_)
\* String.prototype.trim on a sequence of characters
Trim(s) ==
  IF s = <<>> THEN <<>>
  ELSE IF Head(s) = " " THEN Trim(Tail(s))
  ELSE IF s[Len(s)] = " " THEN Trim(SubSeq(s, 1, Len(s) - 1))
  ELSE s

(***************************************************************************)
(* Static definitions of HM_DataSourceQueryBuilder (single page).          *)
(***************************************************************************)
StringOps == <<"equals", "not_equals", "contains", "starts_with", "ends_with",
               "is_null", "is_not_null">>
TextareaOps == <<"equals", "not_equals", "contains", "is_null", "is_not_null">>
PicklistOps == <<"equals", "not_equals", "is_null", "is_not_null">>
MultipicklistOps == <<"includes", "excludes", "is_null", "is_not_null">>
NumberOps == <<"equals", "not_equals", "less_than", "greater_than", "less_or_equal",
               "greater_or_equal", "is_null", "is_not_null">>
DateOps == <<"equals", "not_equals", "less_than", "greater_than", "less_or_equal",
             "greater_or_equal", "is_null", "is_not_null", "date_today",
             "date_gt_today", "date_lt_today", "date_this_week", "date_this_month",
             "date_this_year", "date_last_n_days", "date_gt_last_n_days",
             "date_next_n_days", "date_lt_next_n_days">>
BooleanOps == <<"equals", "is_null", "is_not_null">>
IdOps == <<"equals", "not_equals", "is_null", "is_not_null">>

OPERATORS ==
  [STRING |-> StringOps, TEXTAREA |-> TextareaOps, PICKLIST |-> PicklistOps,
   MULTIPICKLIST |-> MultipicklistOps, NUMBER |-> NumberOps, DATE |-> DateOps,
   BOOLEAN |-> BooleanOps, ID |-> IdOps]

FIELD_TYPE_MAP ==
  [STRING |-> "STRING", TEXTAREA |-> "TEXTAREA", EMAIL |-> "STRING", PHONE |-> "STRING",
   URL |-> "STRING", PICKLIST |-> "PICKLIST", MULTIPICKLIST |-> "MULTIPICKLIST",
   INTEGER |-> "NUMBER", DOUBLE |-> "NUMBER", CURRENCY |-> "NUMBER",
   PERCENT |-> "NUMBER", DATE |-> "DATE", DATETIME |-> "DATE", TIME |-> "STRING",
   BOOLEAN |-> "BOOLEAN", ID |-> "ID", REFERENCE |-> "ID"]

NumericFieldTypes == {"DOUBLE", "INTEGER", "CURRENCY", "PERCENT"}

AGGREGATE_FUNCTIONS ==
  [COUNT |-> [requiresField |-> FALSE, fieldTypes |-> {}],
   COUNT_DISTINCT |-> [requiresField |-> TRUE, fieldTypes |-> {}],
   SUM |-> [requiresField |-> TRUE, fieldTypes |-> NumericFieldTypes],
   AVG |-> [requiresField |-> TRUE, fieldTypes |-> NumericFieldTypes],
   MIN |-> [requiresField |-> TRUE, fieldTypes |-> {}],
   MAX |-> [requiresField |-> TRUE, fieldTypes |-> {}]]

OPERATOR_MAP ==
  [equals |-> "=", not_equals |-> "!=", contains |-> "LIKE", starts_with |-> "LIKE",
   ends_with |-> "LIKE", less_than |-> "<", greater_than |-> ">",
   less_or_equal |-> "<=", greater_or_equal |-> ">=", is_null |-> "=",
   is_not_null |-> "!=", includes |-> "INCLUDES", excludes |-> "EXCLUDES",
   date_today |-> "=", date_this_week |-> "=", date_this_month |-> "=",
   date_this_year |-> "=", date_last_n_days |-> "=", date_next_n_days |-> "="]

VALID_ICON_PREFIXES ==
  {<<"a", "c", "t", "i", "o", "n", ":">>, <<"c", "u", "s", "t", "o", "m", ":">>,
   <<"d", "o", "c", "t", "y", "p", "e", ":">>,
   <<"s", "t", "a", "n", "d", "a", "r", "d", ":">>,
   <<"u", "t", "i", "l", "i", "t", "y", ":">>}

\* hmConfigurableList: page size when the configuration gives none
DEFAULT_PAGE_SIZE == 25

nullOperators == {"is_null", "is_not_null"}
dateLiteralOperators == {"date_today", "date_gt_today", "date_lt_today",
                         "date_this_week", "date_this_month", "date_this_year"}
nDaysOperators == {"date_last_n_days", "date_gt_last_n_days", "date_next_n_days",
                   "date_lt_next_n_days"}

\* the special value the "Owned By Me" quick filter stores, one token
UserIdValue == <<"{!UserId}">>
QueueValue == <<"Queue">>

(***************************************************************************)
(* SOQL generation.                                                        *)
(***************************************************************************)
RECURSIVE ReplaceAll(_, _, _)
\* String.prototype.replace with a global one-character pattern
ReplaceAll(s, ch, rep) ==
  IF s = <<>> THEN <<>>
  ELSE (IF Head(s) = ch THEN rep ELSE <<Head(s)>>) \o ReplaceAll(Tail(s), ch, rep)

\* backslashes first, then single quotes
escapeSoqlValue(value) ==
  ReplaceAll(ReplaceAll(value, "\\", <<"\\", "\\">>), "'", <<"\\", "'">>)

\* /^\d{4}-\d{2}-\d{2}/.test(value)
dateFormatPattern(value) ==
  /\ Len(value) >= 10
  /\ \A i \in {1, 2, 3, 4, 6, 7, 9, 10} : value[i] \in Digits
  /\ value[5] = "-"
  /\ value[8] = "-"

buildConditionClause(condition) ==
  LET operator == IF condition.operator \in DOMAIN OPERATOR_MAP
                  THEN OPERATOR_MAP[condition.operator] ELSE "="
      field == condition.fieldApiName
      op == condition.operator
      value == condition.value
  IN  IF op = "is_null" THEN <<field, " ", "=", " ", "null">>
      ELSE IF op = "is_not_null" THEN <<field, " ", "!=", " ", "null">>
      ELSE IF op = "date_today" THEN <<field, " ", "=", " ", "TODAY">>
      ELSE IF op = "date_this_week" THEN <<field, " ", "=", " ", "THIS_WEEK">>
      ELSE IF op = "date_this_month" THEN <<field, " ", "=", " ", "THIS_MONTH">>
      ELSE IF op = "date_this_year" THEN <<field, " ", "=", " ", "THIS_YEAR">>
      ELSE IF op = "date_last_n_days" THEN <<field, " ", "=", " ", "LAST_N_DAYS:">> \o value
      ELSE IF op = "date_next_n_days" THEN <<field, " ", "=", " ", "NEXT_N_DAYS:">> \o value
      ELSE IF op = "date_gt_today" THEN <<field, " ", ">", " ", "TODAY">>
      ELSE IF op = "date_lt_today" THEN <<field, " ", "<", " ", "TODAY">>
      ELSE IF op = "date_gt_last_n_days" THEN <<field, " ", ">", " ", "LAST_N_DAYS:">> \o value
      ELSE IF op = "date_lt_next_n_days" THEN <<field, " ", "<", " ", "NEXT_N_DAYS:">> \o value
      ELSE IF op = "contains"
        THEN <<field, " ", "LIKE", " ", "'", "%">> \o escapeSoqlValue(value) \o <<"%", "'">>
      ELSE IF op = "starts_with"
        THEN <<field, " ", "LIKE", " ", "'">> \o escapeSoqlValue(value) \o <<"%", "'">>
      ELSE IF op = "ends_with"
        THEN <<field, " ", "LIKE", " ", "'", "%">> \o escapeSoqlValue(value) \o <<"'">>
      ELSE IF value = UserIdValue
        THEN <<field, " ", operator, " ", ":UserInfo.getUserId()">>
      ELSE IF condition.fieldType = "BOOLEAN" THEN <<field, " ", operator, " ">> \o value
      ELSE IF condition.fieldType \in NumericFieldTypes
        THEN <<field, " ", operator, " ">> \o value
      \* both outcomes of isValidDateFormat return the same text
      ELSE IF condition.fieldType \in {"DATE", "DATETIME"}
        THEN <<field, " ", operator, " ">> \o value
      ELSE IF op \in {"includes", "excludes"}
        THEN <<field, " ", operator, " ", "(", "'">> \o escapeSoqlValue(value) \o <<"'", ")">>
      ELSE IF value # <<>> /\ dateFormatPattern(value)
        THEN <<field, " ", operator, " ">> \o value
      ELSE <<field, " ", operator, " ", "'">> \o escapeSoqlValue(value) \o <<"'">>

\* whereConditions.filter((c) => c.fieldApiName && c.operator)
validConditionsOf(conds) ==
  SeqFilter(conds, {c \in Range(conds) : c.fieldApiName # "" /\ c.operator # ""})

RECURSIVE whereLoop(_, _, _)
\* the forEach of the mixed AND/OR case, from index i on; the result is the text
\* appended from there, the closing of an unclosed group included
whereLoop(vc, i, inOrGroup) ==
  IF i > Len(vc) THEN (IF inOrGroup THEN <<")">> ELSE <<>>)
  ELSE
    LET clause == buildConditionClause(vc[i])
        isOr == vc[i].conjunction = "OR"
        nextIsOr == i < Len(vc) /\ vc[i + 1].conjunction = "OR"
    IN  IF i = 1 THEN clause \o whereLoop(vc, i + 1, inOrGroup)
        ELSE IF isOr THEN
          LET opened == IF ~inOrGroup
                        THEN <<"\n    ", "AND", " ", "(">> \o clause
                        ELSE <<"\n         ", "OR", " ">> \o clause
          IN  IF ~nextIsOr
              THEN opened \o <<")">> \o whereLoop(vc, i + 1, FALSE)
              ELSE opened \o whereLoop(vc, i + 1, TRUE)
        ELSE <<"\n    ", "AND", " ">> \o clause \o whereLoop(vc, i + 1, inOrGroup)

buildWhereClauseOf(conds) ==
  LET vc == validConditionsOf(conds)
      hasOr == \E i \in 2..Len(vc) : vc[i].conjunction = "OR"
      hasAnd == \E i \in 2..Len(vc) : vc[i].conjunction = "AND"
  IN  IF vc = <<>> THEN <<>>
      ELSE IF ~(hasOr /\ hasAnd)
        THEN Flatten([i \in 1..Len(vc) |->
               IF i = 1 THEN buildConditionClause(vc[i])
               ELSE <<"\n    ", vc[i].conjunction, " ">> \o buildConditionClause(vc[i])])
      ELSE whereLoop(vc, 1, FALSE)

buildWhereClause == buildWhereClauseOf(whereConditions)

isListMode == queryType = "List"
isAggregateMode == queryType = "Aggregate"

\* the getter generatedSoql as a function of the query state it reads
generatedSoqlOf(obj, qType, selected, aggFn, aggField, conds, limit) ==
  LET whereClause == buildWhereClauseOf(conds)
      wherePart == IF whereClause # <<>> THEN <<"\n ", "WHERE", " ">> \o whereClause
                   ELSE <<>>
      limitPart == IF limit # <<>> /\ limit[1] # 0
                   THEN <<"\n ", "LIMIT", " ", ToString(limit[1])>> ELSE <<>>
  IN  IF obj = NULL THEN <<>>
      ELSE IF qType = "List" THEN
        IF selected = <<>> THEN <<>>
        ELSE <<"SELECT", " ">>
               \o Join([i \in 1..Len(selected) |-> <<selected[i]>>], <<",\n       ">>)
               \o <<"\n  ", "FROM", " ", obj>> \o wherePart \o limitPart
      ELSE IF qType = "Aggregate" THEN
        IF aggFn = NULL THEN <<>>
        ELSE IF aggFn = "COUNT" /\ aggField = NULL
          THEN <<"SELECT", " ", "COUNT", "(", ")", "\n  ", "FROM", " ", obj>> \o wherePart
        ELSE IF aggField = NULL THEN <<>>
        ELSE <<"SELECT", " ", aggFn, "(", aggField, ")", "\n  ", "FROM", " ", obj>>
               \o wherePart
      ELSE <<>>

generatedSoql ==
  generatedSoqlOf(page2Data.selectedObjectApiName, queryType, selectedFieldApiNames,
                  aggregateFunction, aggregateFieldApiName, whereConditions, queryLimit)

(***************************************************************************)
(* The org the components run in: what the Apex methods return.            *)
(***************************************************************************)
Field(apiName, type, isFilterable) ==
  [apiName |-> apiName, type |-> type, isFilterable |-> isFilterable]

AccountFields == <<Field("Name", "STRING", TRUE), Field("Amount", "CURRENCY", TRUE),
                   Field("CloseDate", "DATE", TRUE), Field("IsActive", "BOOLEAN", TRUE),
                   Field("Description", "TEXTAREA", FALSE),
                   Field("OwnerId", "REFERENCE", TRUE)>>
CaseFields == <<Field("Subject", "STRING", TRUE), Field("Priority", "PICKLIST", TRUE)>>

\* getAccessibleObjects
AccessibleObjects == <<"Account", "Case">>
\* getObjectFields({ objectApiName })
ObjectFields(objectApiName) ==
  IF objectApiName = "Account" THEN AccountFields
  ELSE IF objectApiName = "Case" THEN CaseFields ELSE <<>>

\* Component_Type__c of the dashboard component records
ComponentTypeOf(id) == IF id = "cmpList" THEN "List" ELSE "Tile"

(***************************************************************************)
(* HM_DataSourceQueryBuilder: state after construction.                    *)
(***************************************************************************)
InitFormData == [name |-> <<>>, dashboardComponentId |-> NULL, order |-> 1,
                 rowIconName |-> <<>>]

\* the field initialisers of the class; connectedCallback has called loadObjects
BuilderFields ==
  /\ formData = InitFormData
  /\ componentType = NULL
  /\ page2Data = [selectedObjectApiName |-> NULL]
  /\ queryType = "List"
  /\ aggregateFunction = NULL
  /\ aggregateFieldApiName = NULL
  /\ allObjects = <<>>
  /\ allFields = <<>>
  /\ selectedFieldApiNames = <<>>
  /\ fieldCache = {}
  /\ whereConditions = <<>>
  /\ conditionIdCounter = 0
  /\ activeOwnerFilter = NULL
  /\ queryLimit = <<>>
  /\ isLoading = FALSE
  /\ isSaving = FALSE
  /\ error = NULL
  /\ autoRefreshTimeoutId = FALSE
  /\ currentStep = 1
  /\ recordId = NULL
  /\ fieldRequests = <<>>
  /\ loadRequest = <<>>
  /\ saveCalls = <<>>
  /\ serverRecord = <<>>
  /\ queryResults = <<>>
  /\ queryError = NULL
  /\ isQueryLoading = FALSE
  /\ previewRequests = <<>>
  /\ lastPreview = <<>>

\* the list component before its configuration wire has answered
ListIdle ==
  /\ componentConfig = <<>>
  /\ columns = <<>>
  /\ rows = <<>>
  /\ filteredRows = <<>>
  /\ listIsLoading = TRUE
  /\ errorMessage = NULL
  /\ filters = <<>>
  /\ activeFilter = NULL
  /\ currentPage = 1
  /\ recordsPerPage = DEFAULT_PAGE_SIZE
  /\ enablePagination = FALSE
  /\ totalPages = 1
  /\ sortColumn = <<>>
  /\ sortDirection = "asc"
  /\ enableColumnSorting = FALSE
  /\ cachedVisibleColumns = <<>>
  /\ cachedVisibleColumnsFilter = <<>>
  /\ queryRequests = <<>>

\* a new record is being created: connectedCallback has started loadObjects
Init ==
  /\ BuilderFields
  /\ objectsRequest = TRUE
  /\ ListIdle

(***************************************************************************)
(* Object, field and aggregate selection.                                  *)
(***************************************************************************)
\* clearTimeout and setTimeout: the timer id is set from the first call on
updateSoqlPreview == autoRefreshTimeoutId' = TRUE

\* getAccessibleObjects answers
loadObjects_resolved ==
  /\ objectsRequest
  /\ objectsRequest' = FALSE
  /\ allObjects' = AccessibleObjects
  /\ UNCHANGED <<formData, componentType, page2Data, queryType, aggregateFunction,
                 aggregateFieldApiName, allFields, selectedFieldApiNames, fieldCache,
                 whereConditions, conditionIdCounter, activeOwnerFilter, queryLimit,
                 isLoading, isSaving, error, autoRefreshTimeoutId, currentStep, recordId,
                 fieldRequests, loadRequest, saveCalls, serverRecord>>
  /\ UNCHANGED <<previewVars, listVars>>

\* loadFieldsForObject up to its await: a cache hit finishes at once, a miss
\* leaves a getObjectFields request in flight.  The reset of
\* selectedFieldApiNames is written by the callers, which know what follows it.
loadFieldsForObject(objectApiName, then) ==
  IF objectApiName \in fieldCache
  THEN /\ allFields' = ObjectFields(objectApiName)
       /\ updateSoqlPreview
       /\ UNCHANGED <<fieldRequests, fieldCache>>
  ELSE /\ Len(fieldRequests) < MaxPending
       /\ fieldRequests' = Append(fieldRequests, [obj |-> objectApiName, then |-> then])
       /\ UNCHANGED <<allFields, fieldCache, autoRefreshTimeoutId>>

\* the preview table emptied; a preview call in flight is left as it is
clearPreviewResults ==
  /\ queryResults' = <<>>
  /\ queryError' = NULL

handleObjectSelect(apiName) ==
  /\ apiName \in Range(allObjects)
  /\ page2Data' = [selectedObjectApiName |-> apiName]
  /\ aggregateFunction' = NULL
  /\ aggregateFieldApiName' = NULL
  /\ selectedFieldApiNames' = <<>>
  /\ clearPreviewResults
  /\ loadFieldsForObject(apiName, "select")
  /\ UNCHANGED <<formData, componentType, queryType, allObjects, whereConditions,
                 conditionIdCounter, activeOwnerFilter, queryLimit, isLoading, isSaving,
                 error, currentStep, recordId, objectsRequest, loadRequest, saveCalls,
                 serverRecord>>
  /\ UNCHANGED <<isQueryLoading, previewRequests, lastPreview>>
  /\ UNCHANGED listVars

RemoveAt(s, i) == SubSeq(s, 1, i - 1) \o SubSeq(s, i + 1, Len(s))

\* getObjectFields of request i answers (answers may overtake each other); the
\* continuation of handleObjectSelect ends here
loadFieldsForObject_resolved(i) ==
  /\ i \in 1..Len(fieldRequests)
  /\ fieldRequests[i].then = "select"
  /\ fieldRequests' = RemoveAt(fieldRequests, i)
  /\ fieldCache' = fieldCache \cup {fieldRequests[i].obj}
  /\ allFields' = ObjectFields(fieldRequests[i].obj)
  /\ selectedFieldApiNames' = <<>>
  /\ updateSoqlPreview
  /\ UNCHANGED <<formData, componentType, page2Data, queryType, aggregateFunction,
                 aggregateFieldApiName, allObjects, whereConditions, conditionIdCounter,
                 activeOwnerFilter, queryLimit, isLoading, isSaving, error, currentStep,
                 recordId, objectsRequest, loadRequest, saveCalls, serverRecord>>
  /\ UNCHANGED <<previewVars, listVars>>

handleObjectClear ==
  /\ page2Data' = [selectedObjectApiName |-> NULL]
  /\ allFields' = <<>>
  /\ selectedFieldApiNames' = <<>>
  /\ aggregateFunction' = NULL
  /\ aggregateFieldApiName' = NULL
  /\ clearPreviewResults
  /\ updateSoqlPreview
  /\ UNCHANGED <<formData, componentType, queryType, allObjects, fieldCache,
                 whereConditions, conditionIdCounter, activeOwnerFilter, queryLimit,
                 isLoading, isSaving, error, currentStep, recordId, objectsRequest,
                 fieldRequests, loadRequest, saveCalls, serverRecord>>
  /\ UNCHANGED <<isQueryLoading, previewRequests, lastPreview>>
  /\ UNCHANGED listVars

\* a checkbox of the field list: checking appends, unchecking filters
handleFieldCheckboxChange(apiName, isChecked) ==
  /\ \E k \in 1..Len(allFields) : allFields[k].apiName = apiName
  /\ isChecked <=> apiName \notin Range(selectedFieldApiNames)
  /\ selectedFieldApiNames' =
       IF isChecked THEN Append(selectedFieldApiNames, apiName)
       ELSE SeqFilter(selectedFieldApiNames, Range(selectedFieldApiNames) \ {apiName})
  /\ updateSoqlPreview
  /\ UNCHANGED <<formData, componentType, page2Data, queryType, aggregateFunction,
                 aggregateFieldApiName, allObjects, allFields, fieldCache,
                 whereConditions, conditionIdCounter, activeOwnerFilter, queryLimit,
                 isLoading, isSaving, error, currentStep, recordId, objectsRequest,
                 fieldRequests, loadRequest, saveCalls, serverRecord>>
  /\ UNCHANGED <<previewVars, listVars>>

handleQueryTypeChange(newType) ==
  /\ newType # queryType
  /\ queryType' = newType
  /\ IF newType = "List"
     THEN /\ aggregateFunction' = NULL
          /\ aggregateFieldApiName' = NULL
          /\ UNCHANGED selectedFieldApiNames
     ELSE /\ selectedFieldApiNames' = <<>>
          /\ UNCHANGED <<aggregateFunction, aggregateFieldApiName>>
  /\ updateSoqlPreview
  /\ UNCHANGED <<formData, componentType, page2Data, allObjects, allFields, fieldCache,
                 whereConditions, conditionIdCounter, activeOwnerFilter, queryLimit,
                 isLoading, isSaving, error, currentStep, recordId, objectsRequest,
                 fieldRequests, loadRequest, saveCalls, serverRecord>>
  /\ UNCHANGED <<previewVars, listVars>>

handleAggregateFunctionChange(value) ==
  /\ aggregateFunction' = value
  /\ aggregateFieldApiName' = NULL
  /\ updateSoqlPreview
  /\ UNCHANGED <<formData, componentType, page2Data, queryType, allObjects, allFields,
                 selectedFieldApiNames, fieldCache, whereConditions, conditionIdCounter,
                 activeOwnerFilter, queryLimit, isLoading, isSaving, error, currentStep,
                 recordId, objectsRequest, fieldRequests, loadRequest, saveCalls,
                 serverRecord>>
  /\ UNCHANGED <<previewVars, listVars>>

handleAggregateFieldSelect(apiName) ==
  /\ \E k \in 1..Len(allFields) : allFields[k].apiName = apiName
  /\ aggregateFieldApiName' = apiName
  /\ updateSoqlPreview
  /\ UNCHANGED <<formData, componentType, page2Data, queryType, aggregateFunction,
                 allObjects, allFields, selectedFieldApiNames, fieldCache,
                 whereConditions, conditionIdCounter, activeOwnerFilter, queryLimit,
                 isLoading, isSaving, error, currentStep, recordId, objectsRequest,
                 fieldRequests, loadRequest, saveCalls, serverRecord>>
  /\ UNCHANGED <<previewVars, listVars>>

handleAggregateFieldClear ==
  /\ aggregateFieldApiName' = NULL
  /\ updateSoqlPreview
  /\ UNCHANGED <<formData, componentType, page2Data, queryType, aggregateFunction,
                 allObjects, allFields, selectedFieldApiNames, fieldCache,
                 whereConditions, conditionIdCounter, activeOwnerFilter, queryLimit,
                 isLoading, isSaving, error, currentStep, recordId, objectsRequest,
                 fieldRequests, loadRequest, saveCalls, serverRecord>>
  /\ UNCHANGED <<previewVars, listVars>>

DigitValue(d) == CHOOSE n \in 0..9 : ToString(n) = d

RECURSIVE parseInt(_)
\* parseInt(value, 10) of a sequence of digits
parseInt(value) ==
  IF Len(value) = 1 THEN DigitValue(value[1])
  ELSE 10 * parseInt(SubSeq(value, 1, Len(value) - 1)) + DigitValue(value[Len(value)])

\* value is the text of the number input: <<>> when it was cleared
handleQueryLimitChange(value) ==
  /\ queryLimit' = IF value # <<>> THEN <<parseInt(value)>> ELSE <<>>
  /\ updateSoqlPreview
  /\ UNCHANGED <<formData, componentType, page2Data, queryType, aggregateFunction,
                 aggregateFieldApiName, allObjects, allFields, selectedFieldApiNames,
                 fieldCache, whereConditions, conditionIdCounter, activeOwnerFilter,
                 isLoading, isSaving, error, currentStep, recordId, objectsRequest,
                 fieldRequests, loadRequest, saveCalls, serverRecord>>
  /\ UNCHANGED <<previewVars, listVars>>

(***************************************************************************)
(* WHERE conditions.                                                       *)
(***************************************************************************)
Condition(id, fieldApiName, fieldType, operator, value, conjunction, isOwnerFilter) ==
  [id |-> id, fieldApiName |-> fieldApiName, fieldType |-> fieldType,
   operator |-> operator, value |-> value, conjunction |-> conjunction,
   isOwnerFilter |-> isOwnerFilter]

\* whereConditions.map that replaces the conditions whose id is conditionId
MapCondition(conditionId, f(_)) ==
  [i \in 1..Len(whereConditions) |->
     IF whereConditions[i].id = conditionId THEN f(whereConditions[i])
     ELSE whereConditions[i]]

filterableFields == SeqFilter(allFields, {f \in Range(allFields) : f.isFilterable})

\* the operators the operator combobox of a condition offers (conditionsWithMeta)
operatorOptions(condition) ==
  LET mappedType == IF condition.fieldType \in DOMAIN FIELD_TYPE_MAP
                    THEN FIELD_TYPE_MAP[condition.fieldType] ELSE "STRING"
  IN  OPERATORS[mappedType]

showValueInput(condition) ==
  /\ condition.operator \notin nullOperators
  /\ condition.operator \notin dateLiteralOperators
showNDaysInput(condition) == condition.operator \in nDaysOperators
isPicklistField(condition) == condition.fieldType \in {"PICKLIST", "MULTIPICKLIST"}
isBooleanField(condition) == condition.fieldType = "BOOLEAN"
isNumberField(condition) == condition.fieldType \in {"INTEGER", "DOUBLE", "CURRENCY", "PERCENT"}
isDateField(condition) == condition.fieldType \in {"DATE", "DATETIME"}
valueInputType(condition) ==
  IF isDateField(condition) /\ ~showNDaysInput(condition) THEN "date"
  ELSE IF isNumberField(condition) THEN "number"
  ELSE "text"

handleAddCondition ==
  /\ conditionIdCounter < MaxId
  /\ conditionIdCounter' = conditionIdCounter + 1
  /\ whereConditions' =
       Append(whereConditions,
              Condition(<<"cond", conditionIdCounter + 1>>, "", "", "", <<>>, "AND", FALSE))
  /\ UNCHANGED <<formData, componentType, page2Data, queryType, aggregateFunction,
                 aggregateFieldApiName, allObjects, allFields, selectedFieldApiNames,
                 fieldCache, activeOwnerFilter, queryLimit, isLoading, isSaving, error,
                 autoRefreshTimeoutId, currentStep, recordId, objectsRequest,
                 fieldRequests, loadRequest, saveCalls, serverRecord>>
  /\ UNCHANGED <<previewVars, listVars>>

\* the frame of the handlers that replace whereConditions and refresh the preview
ConditionFrame ==
  /\ updateSoqlPreview
  /\ UNCHANGED <<formData, componentType, page2Data, queryType, aggregateFunction,
                 aggregateFieldApiName, allObjects, allFields, selectedFieldApiNames,
                 fieldCache, conditionIdCounter, activeOwnerFilter, queryLimit, isLoading,
                 isSaving, error, currentStep, recordId, objectsRequest, fieldRequests,
                 loadRequest, saveCalls, serverRecord>>
  /\ UNCHANGED <<previewVars, listVars>>

handleRemoveCondition(conditionId) ==
  /\ \E i \in 1..Len(whereConditions) : whereConditions[i].id = conditionId
  /\ whereConditions' =
       SeqFilter(whereConditions, {c \in Range(whereConditions) : c.id # conditionId})
  /\ ConditionFrame

\* the field combobox offers the filterable fields
handleConditionFieldChange(conditionId, fieldApiName) ==
  /\ \E i \in 1..Len(whereConditions) : whereConditions[i].id = conditionId
  /\ \E k \in 1..Len(filterableFields) : filterableFields[k].apiName = fieldApiName
  /\ LET field == CHOOSE f \in Range(filterableFields) : f.apiName = fieldApiName
         set(c) == [c EXCEPT !.fieldApiName = fieldApiName, !.fieldType = field.type,
                             !.operator = "", !.value = <<>>]
     IN  whereConditions' = MapCondition(conditionId, set)
  /\ ConditionFrame

\* the operator combobox is disabled until a field is chosen
handleConditionOperatorChange(conditionId, operator) ==
  /\ \E i \in 1..Len(whereConditions) :
       /\ whereConditions[i].id = conditionId
       /\ whereConditions[i].fieldApiName # ""
       /\ operator \in Range(operatorOptions(whereConditions[i]))
  /\ LET set(c) == [c EXCEPT !.operator = operator, !.value = <<>>]
     IN  whereConditions' = MapCondition(conditionId, set)
  /\ ConditionFrame

\* what the value input of a condition accepts: a date input gives an ISO date,
\* a number input digits, the boolean combobox true or false, a text input any
\* text; every input can be cleared
ValueAccepted(condition, value) ==
  \/ value = <<>>
  \/ IF isBooleanField(condition) THEN value \in {<<"true">>, <<"false">>}
     ELSE IF valueInputType(condition) = "date"
       THEN Len(value) = 10 /\ dateFormatPattern(value)
     ELSE IF valueInputType(condition) = "number" \/ showNDaysInput(condition)
       THEN \A k \in 1..Len(value) : value[k] \in Digits
     ELSE \A k \in 1..Len(value) : Len(value[k]) = 1

\* the value input is disabled until an operator is chosen, and hidden for the
\* operators that take no value
handleConditionValueChange(conditionId, value) ==
  /\ \E i \in 1..Len(whereConditions) :
       /\ whereConditions[i].id = conditionId
       /\ whereConditions[i].operator # ""
       /\ showValueInput(whereConditions[i])
       /\ ValueAccepted(whereConditions[i], value)
       /\ whereConditions[i].value # value
  /\ LET set(c) == [c EXCEPT !.value = value]
     IN  whereConditions' = MapCondition(conditionId, set)
  /\ ConditionFrame

\* the AND/OR toggle is shown from the second condition on
handleConditionConjunctionChange(conditionId, conjunction) ==
  /\ \E i \in 2..Len(whereConditions) : whereConditions[i].id = conditionId
  /\ LET set(c) == [c EXCEPT !.conjunction = conjunction]
     IN  whereConditions' = MapCondition(conditionId, set)
  /\ ConditionFrame

(***************************************************************************)
(* Specification Spec: the query state of the single-page builder, one     *)
(* condition row, values with quotes, backslashes and date prefixes.       *)
(***************************************************************************)
DateText == <<"2", "0", "2", "5", "-", "0", "1", "-", "2", "6">>

\* what the user types or picks in a value input
SampleValues == {<<>>, <<"a">>, <<"'">>, <<"\\">>, DateText, DateText \o <<"'">>,
                 <<"5">>, <<"true">>}
SampleObjects == {"Account"}
SampleCheckedFields == {"Name", "Amount"}
SampleAggregateFunctions == {"COUNT", "SUM"}
SampleLimits == {<<>>, <<"5">>}

AllOperators ==
  UNION {Range(OPERATORS[t]) : t \in DOMAIN OPERATORS}

ConditionIds == {<<"cond", n>> : n \in 1..MaxId} \cup {<<"owner", n>> : n \in 1..MaxId}

Next ==
  \/ loadObjects_resolved
  \/ \E o \in SampleObjects : handleObjectSelect(o)
  \/ \E i \in 1..MaxPending : loadFieldsForObject_resolved(i)
  \/ handleObjectClear
  \/ \E f \in SampleCheckedFields, b \in BOOLEAN : handleFieldCheckboxChange(f, b)
  \/ \E t \in {"List", "Aggregate"} : handleQueryTypeChange(t)
  \/ \E a \in SampleAggregateFunctions :
       isAggregateMode /\ handleAggregateFunctionChange(a)
  \/ isAggregateMode /\ handleAggregateFieldSelect("Amount")
  \/ isAggregateMode /\ aggregateFieldApiName # NULL /\ handleAggregateFieldClear
  \/ \E l \in SampleLimits : isListMode /\ handleQueryLimitChange(l)
  \/ Len(whereConditions) < MaxConditions /\ handleAddCondition
  \/ \E id \in ConditionIds : handleRemoveCondition(id)
  \/ \E id \in ConditionIds, f \in {"Name", "Amount", "CloseDate", "IsActive"} :
       handleConditionFieldChange(id, f)
  \/ \E id \in ConditionIds, o \in AllOperators : handleConditionOperatorChange(id, o)
  \/ \E id \in ConditionIds, v \in SampleValues : handleConditionValueChange(id, v)

Spec == Init /\ [][Next]_vars

validConditions == validConditionsOf(whereConditions)

\* C1: every value entered for a WHERE condition appears in the generated SOQL
\* in its escaped form (backslashes and single quotes escaped), whatever the
\* operator and the field type of the condition
ValuesAreEscaped ==
  generatedSoql # <<>> =>
    \A i \in 1..Len(validConditions) :
      (showValueInput(validConditions[i]) /\ validConditions[i].value # UserIdValue)
        => Contains(generatedSoql, escapeSoqlValue(validConditions[i].value))

ComparisonTokens == {"=", "!=", "<", ">", "<=", ">=", "LIKE", "INCLUDES", "EXCLUDES"}
LayoutTokens == {" ", "\n ", "\n  ", "\n    ", "\n         ", ",\n       "}

\* parentheses are balanced: none closes before it opens, none stays open
Balanced(s) ==
  /\ Count(s, "(") = Count(s, ")")
  /\ \A k \in 1..Len(s) : Count(SubSeq(s, 1, k), ")") <= Count(SubSeq(s, 1, k), "(")

\* every comparison operator of the text is followed by a right-hand value
HasRightHandValues(s) ==
  \A i \in 2..Len(s) :
    (s[i] \in ComparisonTokens /\ s[i - 1] = " ")
      => /\ i + 2 <= Len(s)
         /\ s[i + 1] = " "
         /\ s[i + 2] \notin LayoutTokens \cup {")", "AND", "OR"}

CompleteQuery(s) ==
  /\ Len(s) >= 6
  /\ s[1] = "SELECT" /\ s[2] = " " /\ s[3] \notin LayoutTokens \cup {"FROM"}
  /\ \E k \in 4..(Len(s) - 2) :
       /\ s[k] = "\n  " /\ s[k + 1] = "FROM" /\ s[k + 2] = " "
       /\ s[k + 3] = page2Data.selectedObjectApiName
  /\ \A k \in 1..Len(s) :
       s[k] = "WHERE" => (validConditions # <<>> /\ k + 2 <= Len(s) /\ s[k + 1] = " ")
  /\ HasRightHandValues(s)
  /\ Balanced(s)

\* C3: generatedSoql is the empty string or a complete query: SELECT with a
\* field or an aggregate expression, FROM the selected object, WHERE only with a
\* condition, every emitted condition with a field, an operator and a
\* right-hand value, and balanced parentheses
SoqlEmptyOrComplete == generatedSoql = <<>> \/ CompleteQuery(generatedSoql)

(***************************************************************************)
(* Specification SpecWhere: up to MaxWhere condition rows joined by AND    *)
(* and OR.                                                                 *)
(***************************************************************************)
NextWhere ==
  \/ loadObjects_resolved
  \/ handleObjectSelect("Account")
  \/ \E i \in 1..MaxPending : loadFieldsForObject_resolved(i)
  \/ Len(whereConditions) < MaxWhere /\ handleAddCondition
  \/ \E id \in ConditionIds : handleRemoveCondition(id)
  \/ \E id \in ConditionIds, f \in {"Name", "Amount"} : handleConditionFieldChange(id, f)
  \/ \E id \in ConditionIds : handleConditionOperatorChange(id, "equals")
  \/ \E id \in ConditionIds : handleConditionValueChange(id, <<"5">>)
  \/ \E id \in ConditionIds, c \in {"AND", "OR"} :
       handleConditionConjunctionChange(id, c)

SpecWhere == Init /\ [][NextWhere]_vars

\* the text without its spaces and line breaks
StripLayout(s) == SeqFilter(s, Range(s) \ LayoutTokens)

\* the conditions from index i on whose conjunction is OR, up to the first that is not
RECURSIVE OrRun(_, _)
OrRun(vc, i) ==
  IF i > Len(vc) \/ vc[i].conjunction # "OR" THEN 0 ELSE 1 + OrRun(vc, i + 1)

\* the grouping the conjunctions ask for: a condition and the OR conditions
\* that follow it form one parenthesised group, the groups are joined by AND
RECURSIVE GroupedFrom(_, _)
GroupedFrom(vc, i) ==
  IF i > Len(vc) THEN <<>>
  ELSE
    LET n == OrRun(vc, i + 1)
        group == IF n = 0 THEN buildConditionClause(vc[i])
                 ELSE <<"(">>
                      \o Join([k \in 1..(n + 1) |-> buildConditionClause(vc[i + k - 1])],
                              <<"OR">>)
                      \o <<")">>
    IN  (IF i > 1 THEN <<"AND">> ELSE <<>>) \o StripLayout(group) \o GroupedFrom(vc, i + n + 1)

mixesAndOr(vc) ==
  /\ \E i \in 2..Len(vc) : vc[i].conjunction = "OR"
  /\ \E i \in 2..Len(vc) : vc[i].conjunction = "AND"

\* C2: when the conditions mix AND and OR, every OR condition is joined to the
\* condition before it by OR inside one parenthesised group that starts with
\* the condition preceding the first OR of the run
OrConditionsGroupedWithPrevious ==
  mixesAndOr(validConditions)
    => StripLayout(buildWhereClause) = GroupedFrom(validConditions, 1)

(***************************************************************************)
(* Basic info, validation and saving of the single-page builder.           *)
(***************************************************************************)
clearError == error' = NULL

\* the record picker fetches the type of the chosen component some time after
\* formData.dashboardComponentId changed
wiredDashboardComponent(result) ==
  /\ formData.dashboardComponentId # NULL
  /\ componentType' = IF result = "data"
                      THEN ComponentTypeOf(formData.dashboardComponentId) ELSE NULL
  /\ UNCHANGED <<formData, page2Data, queryType, aggregateFunction,
                 aggregateFieldApiName, allObjects, allFields, selectedFieldApiNames,
                 fieldCache, whereConditions, conditionIdCounter, activeOwnerFilter,
                 queryLimit, isLoading, isSaving, error, autoRefreshTimeoutId,
                 currentStep, recordId, objectsRequest, fieldRequests, loadRequest,
                 saveCalls, serverRecord>>
  /\ UNCHANGED <<previewVars, listVars>>

\* the frame of the handlers of the basic info inputs
FormFrame ==
  /\ UNCHANGED <<componentType, page2Data, queryType, aggregateFunction,
                 aggregateFieldApiName, allObjects, allFields, selectedFieldApiNames,
                 fieldCache, whereConditions, conditionIdCounter, activeOwnerFilter,
                 queryLimit, isLoading, isSaving, autoRefreshTimeoutId, currentStep,
                 recordId, objectsRequest, fieldRequests, loadRequest, saveCalls,
                 serverRecord>>
  /\ UNCHANGED <<previewVars, listVars>>

handleNameChange(value) ==
  /\ formData' = [formData EXCEPT !.name = value]
  /\ clearError
  /\ FormFrame

handleDashboardComponentChange(id) ==
  /\ formData' = [formData EXCEPT !.dashboardComponentId = id, !.rowIconName = <<>>]
  /\ clearError
  /\ FormFrame

\* value is the text of the number input
handleOrderChange(value) ==
  /\ formData' = [formData EXCEPT !.order = IF value # <<>> THEN parseInt(value) ELSE 1]
  /\ UNCHANGED error
  /\ FormFrame

handleRowIconNameChange(value) ==
  /\ formData' = [formData EXCEPT !.rowIconName = value]
  /\ UNCHANGED error
  /\ FormFrame

LowerOf(ch) ==
  IF ch = "U" THEN "u" ELSE IF ch = "A" THEN "a" ELSE IF ch = "S" THEN "s"
  ELSE IF ch = "C" THEN "c" ELSE IF ch = "D" THEN "d" ELSE ch
toLowerCase(s) == [i \in 1..Len(s) |-> LowerOf(s[i])]
startsWith(s, prefix) == Len(s) >= Len(prefix) /\ SubSeq(s, 1, Len(prefix)) = prefix

showRowIconInput == componentType = "List"

isValidIconName ==
  LET iconName == toLowerCase(Trim(formData.rowIconName))
  IN  /\ iconName # <<>>
      /\ \E prefix \in VALID_ICON_PREFIXES : startsWith(iconName, prefix)

isIconNameValidOrEmpty ==
  IF ~showRowIconInput THEN TRUE
  ELSE IF Trim(formData.rowIconName) = <<>> THEN TRUE
  ELSE isValidIconName

\* formData.order is a number from construction on
hasRequiredBasicInfo ==
  /\ formData.name # <<>>
  /\ Trim(formData.name) # <<>>
  /\ formData.dashboardComponentId # NULL

getSelectedAggregateFunction == AGGREGATE_FUNCTIONS[aggregateFunction]

isFieldSelectionValid ==
  IF isListMode THEN Len(selectedFieldApiNames) > 0
  ELSE IF isAggregateMode THEN
    IF aggregateFunction = NULL THEN FALSE
    ELSE IF getSelectedAggregateFunction.requiresField /\ aggregateFieldApiName = NULL
      THEN FALSE
    ELSE TRUE
  ELSE FALSE

\* areConditionsValid without the check of the value
areConditionsValid_fieldAndOperatorOnly ==
  \A i \in 1..Len(whereConditions) :
    whereConditions[i].fieldApiName # "" /\ whereConditions[i].operator # ""

areConditionsValid ==
  IF Len(whereConditions) = 0 THEN TRUE
  ELSE \A i \in 1..Len(whereConditions) :
         LET condition == whereConditions[i]
         IN  IF condition.fieldApiName = "" \/ condition.operator = "" THEN FALSE
             ELSE IF /\ condition.operator \notin nullOperators
                     /\ condition.operator \notin dateLiteralOperators
               THEN condition.value # <<>>
             ELSE TRUE

isFormValid ==
  IF ~hasRequiredBasicInfo \/ ~isIconNameValidOrEmpty THEN FALSE
  ELSE IF page2Data.selectedObjectApiName = NULL THEN FALSE
  ELSE IF ~isFieldSelectionValid THEN FALSE
  ELSE IF ~areConditionsValid THEN FALSE
  ELSE TRUE

isSaveDisabled == isSaving \/ isLoading \/ ~isFormValid

\* the condition as JSON.stringify writes it: the listed keys only
SerializedCondition(c) ==
  [id |-> c.id, fieldApiName |-> c.fieldApiName, fieldType |-> c.fieldType,
   operator |-> c.operator, value |-> c.value, conjunction |-> c.conjunction]

serializeQueryConfig ==
  [objectApiName |-> page2Data.selectedObjectApiName,
   queryType |-> queryType,
   selectedFields |-> selectedFieldApiNames,
   aggregateFunction |-> aggregateFunction,
   aggregateFieldApiName |-> aggregateFieldApiName,
   whereConditions |-> [i \in 1..Len(whereConditions) |->
                          SerializedCondition(whereConditions[i])],
   activeOwnerFilter |-> activeOwnerFilter,
   queryLimit |-> queryLimit]

\* the query state a payload is built from: kept beside the payload as history
QueryState ==
  [objectApiName |-> page2Data.selectedObjectApiName,
   queryType |-> queryType,
   selectedFields |-> selectedFieldApiNames,
   aggregateFunction |-> aggregateFunction,
   aggregateFieldApiName |-> aggregateFieldApiName,
   whereConditions |-> whereConditions,
   activeOwnerFilter |-> activeOwnerFilter,
   queryLimit |-> queryLimit,
   soql |-> generatedSoql]

ValidationMessage == "Please complete all required fields and fix any invalid conditions"

\* the arguments of saveDataSourceComplete
SavePayload ==
  [recordId |-> recordId,
   name |-> Trim(formData.name),
   dashboardComponentId |-> formData.dashboardComponentId,
   orderValue |-> formData.order,
   rowIconName |-> Trim(formData.rowIconName),
   returnType |-> queryType,
   soqlQuery |-> generatedSoql,
   queryConfig |-> serializeQueryConfig]

handleSave ==
  /\ IF ~isFormValid
     THEN /\ error' = ValidationMessage
          /\ UNCHANGED <<isSaving, saveCalls>>
     ELSE /\ Len(saveCalls) + Len(serverRecord) < MaxSaves
          /\ isSaving' = TRUE
          /\ clearError
          /\ saveCalls' = Append(saveCalls, [payload |-> SavePayload, from |-> QueryState])
  /\ UNCHANGED <<formData, componentType, page2Data, queryType, aggregateFunction,
                 aggregateFieldApiName, allObjects, allFields, selectedFieldApiNames,
                 fieldCache, whereConditions, conditionIdCounter, activeOwnerFilter,
                 queryLimit, isLoading, autoRefreshTimeoutId, currentStep, recordId,
                 objectsRequest, fieldRequests, loadRequest, serverRecord>>
  /\ UNCHANGED <<previewVars, listVars>>

\* the frame of the answers to a save call
SaveFrame ==
  /\ UNCHANGED <<formData, componentType, page2Data, queryType, aggregateFunction,
                 aggregateFieldApiName, allObjects, allFields, selectedFieldApiNames,
                 fieldCache, whereConditions, conditionIdCounter, activeOwnerFilter,
                 queryLimit, isLoading, autoRefreshTimeoutId, currentStep, recordId,
                 objectsRequest, fieldRequests, loadRequest>>
  /\ UNCHANGED <<previewVars, listVars>>

\* the server stored the record: toast and savesuccess event, then finally
handleSave_resolved(i) ==
  /\ i \in 1..Len(saveCalls)
  /\ saveCalls' = RemoveAt(saveCalls, i)
  /\ serverRecord' = <<saveCalls[i]>>
  /\ isSaving' = FALSE
  /\ UNCHANGED error
  /\ SaveFrame

\* the server refused: catch, then finally
handleSave_rejected(i) ==
  /\ i \in 1..Len(saveCalls)
  /\ saveCalls' = RemoveAt(saveCalls, i)
  /\ error' = "Error saving data source"
  /\ isSaving' = FALSE
  /\ UNCHANGED serverRecord
  /\ SaveFrame

(***************************************************************************)
(* Specification SpecSave: basic info, a small query and saving.           *)
(***************************************************************************)
ValidIcon == <<"U", "t", "i", "l", "i", "t", "y", ":", "a">>
SampleNames == {<<>>, <<" ">>, <<"D">>}
SampleComponents == {NULL, "cmpList"}
SampleIcons == {<<"x">>, ValidIcon}

NextSave ==
  \/ loadObjects_resolved
  \/ handleObjectSelect("Account")
  \/ \E i \in 1..MaxPending : loadFieldsForObject_resolved(i)
  \/ \E b \in BOOLEAN : handleFieldCheckboxChange("Name", b)
  \/ \E t \in {"List", "Aggregate"} : handleQueryTypeChange(t)
  \/ isAggregateMode /\ handleAggregateFunctionChange("SUM")
  \/ isAggregateMode /\ handleAggregateFieldSelect("Amount")
  \/ Len(whereConditions) < MaxConditions /\ conditionIdCounter = 0 /\ handleAddCondition
  \/ \E id \in ConditionIds : handleConditionFieldChange(id, "Name")
  \/ \E id \in ConditionIds, o \in {"equals", "is_null"} :
       handleConditionOperatorChange(id, o)
  \/ \E id \in ConditionIds : handleConditionValueChange(id, <<"a">>)
  \/ \E n \in SampleNames : handleNameChange(n)
  \/ \E c \in SampleComponents : handleDashboardComponentChange(c)
  \/ wiredDashboardComponent("data")
  \/ \E v \in SampleIcons : showRowIconInput /\ handleRowIconNameChange(v)
  \/ handleSave
  \/ \E i \in 1..MaxSaves : handleSave_resolved(i)
  \/ \E i \in 1..MaxSaves : handleSave_rejected(i)

SpecSave == Init /\ [][NextSave]_vars

\* a condition row is complete: field, operator, and a value where the operator takes one
ConditionComplete(c) ==
  /\ c.fieldApiName # ""
  /\ c.operator # ""
  /\ (showValueInput(c) => c.value # <<>>)

\* the whole form is valid: required basic info, an object, a valid field or
\* aggregate selection, every WHERE condition complete
WholeFormValid ==
  /\ Trim(formData.name) # <<>>
  /\ formData.dashboardComponentId # NULL
  /\ page2Data.selectedObjectApiName # NULL
  /\ queryType \in {"List", "Aggregate"}
  /\ (queryType = "List" => selectedFieldApiNames # <<>>)
  /\ (queryType = "Aggregate" =>
        /\ aggregateFunction # NULL
        /\ (aggregateFunction = "COUNT" \/ aggregateFieldApiName # NULL))
  /\ \A i \in 1..Len(whereConditions) : ConditionComplete(whereConditions[i])

\* C4: a step hands a payload to the server only from a state whose whole form
\* is valid, and handleSave on an invalid form shows the validation error and
\* makes no server call
SaveOnlyWhenFormValid ==
  [][/\ (Len(saveCalls') > Len(saveCalls) => handleSave /\ WholeFormValid)
     /\ ((handleSave /\ ~WholeFormValid)
           => (error' = ValidationMessage /\ saveCalls' = saveCalls))]_vars

\* a save is in flight, sent from a valid form, and a later handleSave on the
\* form made invalid has shown the validation error
SaveSentAndInvalidSaveRefused ==
  /\ Len(saveCalls) = 1
  /\ ~WholeFormValid
  /\ error = ValidationMessage

(***************************************************************************)
(* HM_DataSourceQueryBuilder, four-step wizard (src/unnamed/part_002).     *)
(* Its updateSoqlPreview only refreshes the editor widget: the handlers    *)
(* leave the timer of the single-page builder alone.  Preview results are  *)
(* not part of this model's state.                                         *)
(***************************************************************************)
\* connectedCallback of the wizard starts no request for a new record
InitWizard ==
  /\ BuilderFields
  /\ objectsRequest = FALSE
  /\ ListIdle

isPage1 == currentStep = 1
isPage2 == currentStep = 2
isPage3 == currentStep = 3
isPage4 == currentStep = 4
showNextButton == currentStep = 1 \/ currentStep = 2 \/ currentStep = 3
showSaveButton == currentStep = 4
showBackButton == currentStep = 2 \/ currentStep = 3 \/ currentStep = 4

wizard_showRowIconInput == componentType = "List"

wizard_isValidIconName ==
  LET iconName == toLowerCase(Trim(formData.rowIconName))
  IN  /\ iconName # <<>>
      /\ \E prefix \in VALID_ICON_PREFIXES : startsWith(iconName, prefix)

wizard_isIconNameValidOrEmpty ==
  IF ~wizard_showRowIconInput THEN TRUE
  ELSE IF Trim(formData.rowIconName) = <<>> THEN TRUE
  ELSE wizard_isValidIconName

hasRequiredPage1Fields ==
  /\ formData.name # <<>>
  /\ Trim(formData.name) # <<>>
  /\ formData.dashboardComponentId # NULL

isPage1Valid == hasRequiredPage1Fields /\ wizard_isIconNameValidOrEmpty

isPage2Valid ==
  IF page2Data.selectedObjectApiName = NULL THEN FALSE
  ELSE IF isListMode THEN Len(selectedFieldApiNames) > 0
  ELSE IF isAggregateMode THEN
    IF aggregateFunction = NULL THEN FALSE
    ELSE IF AGGREGATE_FUNCTIONS[aggregateFunction].requiresField
            /\ aggregateFieldApiName = NULL
      THEN FALSE
    ELSE TRUE
  ELSE FALSE

wizard_dateLiteralOperators ==
  {"date_today", "date_this_week", "date_this_month", "date_this_year"}

isPage3Valid ==
  IF Len(whereConditions) = 0 THEN TRUE
  ELSE \A i \in 1..Len(whereConditions) :
         LET condition == whereConditions[i]
         IN  IF condition.fieldApiName = "" \/ condition.operator = "" THEN FALSE
             ELSE IF /\ condition.operator \notin nullOperators
                     /\ condition.operator \notin wizard_dateLiteralOperators
               THEN condition.value # <<>>
             ELSE TRUE

isNextDisabled ==
  IF isSaving \/ isLoading THEN TRUE
  ELSE IF currentStep = 1 THEN ~isPage1Valid
  ELSE IF currentStep = 2 THEN ~isPage2Valid
  ELSE IF currentStep = 3 THEN ~isPage3Valid
  ELSE TRUE

wizard_isSaveDisabled == isSaving \/ isLoading

\* the frame of handleNext and handleBack
StepFrame ==
  /\ UNCHANGED <<formData, componentType, page2Data, queryType, aggregateFunction,
                 aggregateFieldApiName, allObjects, allFields, selectedFieldApiNames,
                 fieldCache, whereConditions, conditionIdCounter, activeOwnerFilter,
                 queryLimit, isLoading, isSaving, autoRefreshTimeoutId, recordId,
                 fieldRequests, loadRequest, saveCalls, serverRecord>>
  /\ UNCHANGED <<previewVars, listVars>>

\* loadObjects: nothing to fetch once the objects are there
wizard_loadObjects ==
  objectsRequest' = IF Len(allObjects) > 0 THEN objectsRequest ELSE TRUE

\* handleNext without the validation of page 2
wizard_handleNext_page2Unchecked ==
  /\ clearError
  /\ IF currentStep = 1 THEN
       IF ~isPage1Valid THEN UNCHANGED <<currentStep, objectsRequest>>
       ELSE currentStep' = 2 /\ wizard_loadObjects
     ELSE IF currentStep = 2 THEN
       currentStep' = 3 /\ UNCHANGED objectsRequest
     ELSE IF currentStep = 3 THEN
       IF ~isPage3Valid THEN UNCHANGED <<currentStep, objectsRequest>>
       ELSE currentStep' = 4 /\ UNCHANGED objectsRequest
     ELSE UNCHANGED <<currentStep, objectsRequest>>
  /\ StepFrame

wizard_handleNext ==
  /\ clearError
  /\ IF currentStep = 1 THEN
       IF ~isPage1Valid THEN UNCHANGED <<currentStep, objectsRequest>>
       ELSE currentStep' = 2 /\ wizard_loadObjects
     ELSE IF currentStep = 2 THEN
       IF ~isPage2Valid THEN UNCHANGED <<currentStep, objectsRequest>>
       ELSE currentStep' = 3 /\ UNCHANGED objectsRequest
     ELSE IF currentStep = 3 THEN
       IF ~isPage3Valid THEN UNCHANGED <<currentStep, objectsRequest>>
       ELSE currentStep' = 4 /\ UNCHANGED objectsRequest
     ELSE UNCHANGED <<currentStep, objectsRequest>>
  /\ StepFrame

wizard_handleBack ==
  /\ clearError
  /\ currentStep' = IF currentStep = 2 THEN 1
                    ELSE IF currentStep = 3 THEN 2
                    ELSE IF currentStep = 4 THEN 3
                    ELSE currentStep
  /\ UNCHANGED objectsRequest
  /\ StepFrame

\* the arguments of saveDataSourceBasicInfo
BasicInfoPayload ==
  [recordId |-> recordId,
   name |-> Trim(formData.name),
   dashboardComponentId |-> formData.dashboardComponentId,
   orderValue |-> formData.order,
   rowIconName |-> Trim(formData.rowIconName)]

wizard_handleSave ==
  /\ IF ~isPage3Valid
     THEN UNCHANGED <<isSaving, error, saveCalls>>
     ELSE /\ Len(saveCalls) + Len(serverRecord) < MaxSaves
          /\ isSaving' = TRUE
          /\ clearError
          /\ saveCalls' = Append(saveCalls, [payload |-> BasicInfoPayload])
  /\ UNCHANGED <<formData, componentType, page2Data, queryType, aggregateFunction,
                 aggregateFieldApiName, allObjects, allFields, selectedFieldApiNames,
                 fieldCache, whereConditions, conditionIdCounter, activeOwnerFilter,
                 queryLimit, isLoading, autoRefreshTimeoutId, currentStep, recordId,
                 objectsRequest, fieldRequests, loadRequest, serverRecord>>
  /\ UNCHANGED <<previewVars, listVars>>

\* toast and close event, then finally
wizard_handleSave_resolved(i) ==
  /\ i \in 1..Len(saveCalls)
  /\ saveCalls' = RemoveAt(saveCalls, i)
  /\ serverRecord' = <<saveCalls[i]>>
  /\ isSaving' = FALSE
  /\ UNCHANGED error
  /\ SaveFrame

wizard_handleSave_rejected(i) ==
  /\ i \in 1..Len(saveCalls)
  /\ saveCalls' = RemoveAt(saveCalls, i)
  /\ error' = "Error saving data source"
  /\ isSaving' = FALSE
  /\ UNCHANGED serverRecord
  /\ SaveFrame

\* page 1 of the wizard: the same handlers as in the single-page builder
wizard_handleNameChange(value) == handleNameChange(value)
wizard_handleDashboardComponentChange(id) == handleDashboardComponentChange(id)
wizard_handleRowIconNameChange(value) == handleRowIconNameChange(value)
wizard_wiredDashboardComponent(result) == wiredDashboardComponent(result)
wizard_loadObjects_resolved == loadObjects_resolved

\* the frame of the handlers of page 2
Page2Frame ==
  /\ UNCHANGED <<formData, componentType, queryType, allObjects, whereConditions,
                 conditionIdCounter, activeOwnerFilter, queryLimit, isLoading, isSaving,
                 error, autoRefreshTimeoutId, currentStep, recordId, objectsRequest,
                 loadRequest, saveCalls, serverRecord>>
  /\ UNCHANGED <<previewVars, listVars>>

wizard_loadFieldsForObject(objectApiName) ==
  IF objectApiName \in fieldCache
  THEN /\ allFields' = ObjectFields(objectApiName)
       /\ UNCHANGED <<fieldRequests, fieldCache>>
  ELSE /\ Len(fieldRequests) < MaxPending
       /\ fieldRequests' = Append(fieldRequests, [obj |-> objectApiName, then |-> "select"])
       /\ UNCHANGED <<allFields, fieldCache>>

wizard_handleObjectSelect(apiName) ==
  /\ apiName \in Range(allObjects)
  /\ page2Data' = [selectedObjectApiName |-> apiName]
  /\ selectedFieldApiNames' = <<>>
  /\ aggregateFunction' = NULL
  /\ aggregateFieldApiName' = NULL
  /\ wizard_loadFieldsForObject(apiName)
  /\ Page2Frame

\* getObjectFields of request i answers, whatever the step and the object
\* selected by then
wizard_loadFieldsForObject_resolved(i) ==
  /\ i \in 1..Len(fieldRequests)
  /\ fieldRequests' = RemoveAt(fieldRequests, i)
  /\ fieldCache' = fieldCache \cup {fieldRequests[i].obj}
  /\ allFields' = ObjectFields(fieldRequests[i].obj)
  /\ selectedFieldApiNames' = <<>>
  /\ UNCHANGED <<page2Data, aggregateFunction, aggregateFieldApiName>>
  /\ Page2Frame

wizard_handleFieldCheckboxChange(apiName, isChecked) ==
  /\ \E k \in 1..Len(allFields) : allFields[k].apiName = apiName
  /\ isChecked <=> apiName \notin Range(selectedFieldApiNames)
  /\ selectedFieldApiNames' =
       IF isChecked THEN Append(selectedFieldApiNames, apiName)
       ELSE SeqFilter(selectedFieldApiNames, Range(selectedFieldApiNames) \ {apiName})
  /\ UNCHANGED <<page2Data, aggregateFunction, aggregateFieldApiName, allFields,
                 fieldCache, fieldRequests>>
  /\ Page2Frame

wizard_handleQueryTypeChange(newType) ==
  /\ newType # queryType
  /\ queryType' = newType
  /\ IF newType = "List"
     THEN /\ aggregateFunction' = NULL
          /\ aggregateFieldApiName' = NULL
          /\ UNCHANGED selectedFieldApiNames
     ELSE /\ selectedFieldApiNames' = <<>>
          /\ UNCHANGED <<aggregateFunction, aggregateFieldApiName>>
  /\ UNCHANGED <<formData, componentType, page2Data, allObjects, allFields, fieldCache,
                 whereConditions, conditionIdCounter, activeOwnerFilter, queryLimit,
                 isLoading, isSaving, error, autoRefreshTimeoutId, currentStep, recordId,
                 objectsRequest, fieldRequests, loadRequest, saveCalls, serverRecord>>
  /\ UNCHANGED <<previewVars, listVars>>

wizard_handleAggregateFunctionChange(value) ==
  /\ aggregateFunction' = value
  /\ aggregateFieldApiName' = NULL
  /\ UNCHANGED <<page2Data, selectedFieldApiNames, allFields, fieldCache, fieldRequests>>
  /\ Page2Frame

\* page 3 of the wizard
wizard_handleAddCondition == handleAddCondition

\* the frame of the handlers that replace whereConditions
wizard_ConditionFrame ==
  /\ UNCHANGED <<formData, componentType, page2Data, queryType, aggregateFunction,
                 aggregateFieldApiName, allObjects, allFields, selectedFieldApiNames,
                 fieldCache, conditionIdCounter, activeOwnerFilter, queryLimit, isLoading,
                 isSaving, error, autoRefreshTimeoutId, currentStep, recordId,
                 objectsRequest, fieldRequests, loadRequest, saveCalls, serverRecord>>
  /\ UNCHANGED <<previewVars, listVars>>

wizard_handleRemoveCondition(conditionId) ==
  /\ \E i \in 1..Len(whereConditions) : whereConditions[i].id = conditionId
  /\ whereConditions' =
       SeqFilter(whereConditions, {c \in Range(whereConditions) : c.id # conditionId})
  /\ wizard_ConditionFrame

wizard_handleConditionFieldChange(conditionId, fieldApiName) ==
  /\ \E i \in 1..Len(whereConditions) : whereConditions[i].id = conditionId
  /\ \E k \in 1..Len(filterableFields) : filterableFields[k].apiName = fieldApiName
  /\ LET field == CHOOSE f \in Range(filterableFields) : f.apiName = fieldApiName
         set(c) == [c EXCEPT !.fieldApiName = fieldApiName, !.fieldType = field.type,
                             !.operator = "", !.value = <<>>]
     IN  whereConditions' = MapCondition(conditionId, set)
  /\ wizard_ConditionFrame

wizard_handleConditionOperatorChange(conditionId, operator) ==
  /\ \E i \in 1..Len(whereConditions) :
       /\ whereConditions[i].id = conditionId
       /\ whereConditions[i].fieldApiName # ""
  /\ LET set(c) == [c EXCEPT !.operator = operator, !.value = <<>>]
     IN  whereConditions' = MapCondition(conditionId, set)
  /\ wizard_ConditionFrame

wizard_handleConditionValueChange(conditionId, value) ==
  /\ \E i \in 1..Len(whereConditions) :
       /\ whereConditions[i].id = conditionId
       /\ whereConditions[i].operator # ""
       /\ whereConditions[i].operator \notin nullOperators
       /\ whereConditions[i].operator \notin wizard_dateLiteralOperators
       /\ whereConditions[i].value # value
  /\ LET set(c) == [c EXCEPT !.value = value]
     IN  whereConditions' = MapCondition(conditionId, set)
  /\ wizard_ConditionFrame

(***************************************************************************)
(* Specification SpecWizard: the four steps with their page handlers.      *)
(* The handlers of a page run while its page is shown; answers of the      *)
(* server arrive at any step.  handleNext runs whenever the Next button is *)
(* shown, handleSave when the Save button is shown and enabled.            *)
(***************************************************************************)
WizardNames == {<<>>, <<"D">>}

NextWizard ==
  \/ \E n \in WizardNames : isPage1 /\ wizard_handleNameChange(n)
  \/ \E c \in SampleComponents : isPage1 /\ wizard_handleDashboardComponentChange(c)
  \/ wizard_wiredDashboardComponent("data")
  \/ isPage1 /\ wizard_showRowIconInput /\ wizard_handleRowIconNameChange(<<"x">>)
  \/ showNextButton /\ wizard_handleNext
  \/ showBackButton /\ wizard_handleBack
  \/ showSaveButton /\ ~wizard_isSaveDisabled /\ wizard_handleSave
  \/ \E i \in 1..MaxSaves : wizard_handleSave_resolved(i)
  \/ \E i \in 1..MaxSaves : wizard_handleSave_rejected(i)
  \/ wizard_loadObjects_resolved
  \/ \E o \in {"Account", "Case"} : isPage2 /\ wizard_handleObjectSelect(o)
  \/ \E i \in 1..MaxPending : wizard_loadFieldsForObject_resolved(i)
  \/ \E b \in BOOLEAN : isPage2 /\ wizard_handleFieldCheckboxChange("Name", b)
  \/ \E t \in {"List", "Aggregate"} : isPage2 /\ wizard_handleQueryTypeChange(t)
  \/ \E a \in SampleAggregateFunctions :
       isPage2 /\ isAggregateMode /\ wizard_handleAggregateFunctionChange(a)
  \/ isPage3 /\ Len(whereConditions) < MaxConditions /\ wizard_handleAddCondition
  \/ \E id \in ConditionIds : isPage3 /\ wizard_handleRemoveCondition(id)
  \/ \E id \in ConditionIds : isPage3 /\ wizard_handleConditionFieldChange(id, "Name")
  \/ \E id \in ConditionIds :
       isPage3 /\ wizard_handleConditionOperatorChange(id, "equals")
  \/ \E id \in ConditionIds : isPage3 /\ wizard_handleConditionValueChange(id, <<"a">>)

SpecWizard == InitWizard /\ [][NextWizard]_vars

PageValid(n) ==
  IF n = 1 THEN isPage1Valid
  ELSE IF n = 2 THEN isPage2Valid
  ELSE IF n = 3 THEN isPage3Valid
  ELSE FALSE

\* C5: Next moves from step n to step n+1 only when page n is valid and leaves
\* the step unchanged otherwise, Back moves from step n to step n-1, no other
\* step of the wizard moves, and the current step stays in 1..4
StepsFollowValidPages ==
  [][/\ currentStep \in 1..4 /\ currentStep' \in 1..4
     /\ (wizard_handleNext =>
           currentStep' = IF currentStep < 4 /\ PageValid(currentStep)
                          THEN currentStep + 1 ELSE currentStep)
     /\ (wizard_handleBack =>
           currentStep' = IF currentStep > 1 THEN currentStep - 1 ELSE currentStep)
     /\ (currentStep' > currentStep =>
           currentStep' = currentStep + 1 /\ PageValid(currentStep))
     /\ (currentStep' < currentStep => currentStep' = currentStep - 1)]_vars

\* the wizard is on its last step after Next passed three valid pages, with a
\* condition added and completed on page 3
WizardReachedPreview ==
  /\ currentStep = 4
  /\ isPage1Valid /\ isPage2Valid /\ isPage3Valid
  /\ Len(whereConditions) = 1

AllPagesValid == isPage1Valid /\ isPage2Valid /\ isPage3Valid

\* C6: the Save button of the wizard is enabled only while pages 1, 2 and 3
\* are all valid, and a record is sent to the server only from such a state
WizardSavesOnlyValidPages ==
  [][/\ ((showSaveButton /\ ~wizard_isSaveDisabled) => AllPagesValid)
     /\ (Len(saveCalls') > Len(saveCalls) => AllPagesValid)]_vars

(***************************************************************************)
(* Owner quick filters, and editing a stored record (single-page builder). *)
(***************************************************************************)
hasOwnerField == \E k \in 1..Len(filterableFields) : filterableFields[k].apiName = "OwnerId"

removeOwnerCondition(conds) ==
  SeqFilter(conds, {c \in Range(conds) : ~c.isOwnerFilter})

\* the condition addOwnerCondition appends, with the id the counter gives
ownerCondition(filterType, n) ==
  IF filterType = "me"
  THEN Condition(<<"owner", n>>, "OwnerId", "REFERENCE", "equals", UserIdValue, "AND", TRUE)
  ELSE Condition(<<"owner", n>>, "Owner.Type", "STRING", "equals", QueueValue, "AND", TRUE)

handleOwnerFilterToggle(filterType) ==
  /\ IF activeOwnerFilter = filterType
     THEN /\ whereConditions' = removeOwnerCondition(whereConditions)
          /\ activeOwnerFilter' = NULL
          /\ UNCHANGED conditionIdCounter
     ELSE /\ conditionIdCounter < MaxId
          /\ activeOwnerFilter' = filterType
          /\ conditionIdCounter' = conditionIdCounter + 1
          /\ whereConditions' =
               Append(IF activeOwnerFilter # NULL
                      THEN removeOwnerCondition(whereConditions) ELSE whereConditions,
                      ownerCondition(filterType, conditionIdCounter + 1))
  /\ updateSoqlPreview
  /\ UNCHANGED <<formData, componentType, page2Data, queryType, aggregateFunction,
                 aggregateFieldApiName, allObjects, allFields, selectedFieldApiNames,
                 fieldCache, queryLimit, isLoading, isSaving, error, currentStep,
                 recordId, objectsRequest, fieldRequests, loadRequest, saveCalls,
                 serverRecord>>
  /\ UNCHANGED <<previewVars, listVars>>

\* the builder is opened on the stored record: a new instance with recordId
\* set, whose connectedCallback starts loadObjects and loadExistingData; the
\* requests of the instance that was closed no longer reach a component
connectedCallback_edit ==
  /\ serverRecord # <<>>
  /\ saveCalls = <<>>
  /\ ~isSaving
  /\ formData' = InitFormData
  /\ componentType' = NULL
  /\ page2Data' = [selectedObjectApiName |-> NULL]
  /\ queryType' = "List"
  /\ aggregateFunction' = NULL
  /\ aggregateFieldApiName' = NULL
  /\ allObjects' = <<>>
  /\ allFields' = <<>>
  /\ selectedFieldApiNames' = <<>>
  /\ fieldCache' = {}
  /\ whereConditions' = <<>>
  /\ conditionIdCounter' = 0
  /\ activeOwnerFilter' = NULL
  /\ queryLimit' = <<>>
  /\ isSaving' = FALSE
  /\ autoRefreshTimeoutId' = FALSE
  /\ currentStep' = 1
  /\ recordId' = "rec1"
  /\ objectsRequest' = TRUE
  /\ fieldRequests' = <<>>
  /\ isLoading' = TRUE
  /\ clearError
  /\ loadRequest' = <<[phase |-> "loadDataSource", config |-> <<>>]>>
  /\ UNCHANGED <<saveCalls, serverRecord>>
  /\ UNCHANGED <<previewVars, listVars>>

\* JSON.parse of a stored condition: isOwnerFilter is read as false when the
\* key is absent
ParsedCondition(c) ==
  Condition(c.id, c.fieldApiName, c.fieldType, c.operator, c.value, c.conjunction,
            IF "isOwnerFilter" \in DOMAIN c THEN c.isOwnerFilter ELSE FALSE)

\* the end of deserializeQueryConfig, after loadFieldsForObject: selected
\* fields, conditions (each keeps the id it was stored with), owner filter and
\* limit, then the finally of loadExistingData
deserializeQueryConfig_restore(config) ==
  /\ selectedFieldApiNames' = config.selectedFields
  /\ whereConditions' = [i \in 1..Len(config.whereConditions) |->
                           ParsedCondition(config.whereConditions[i])]
  /\ activeOwnerFilter' = config.activeOwnerFilter
  /\ queryLimit' = IF config.queryLimit # <<>> /\ config.queryLimit[1] # 0
                   THEN config.queryLimit ELSE <<>>
  /\ updateSoqlPreview
  /\ isLoading' = FALSE
  /\ loadRequest' = <<>>

\* loadDataSource answers: basic info, then deserializeQueryConfig up to its
\* await of loadFieldsForObject
loadExistingData_resolved ==
  /\ loadRequest # <<>>
  /\ loadRequest[1].phase = "loadDataSource"
  /\ LET data == serverRecord[1].payload
         config == data.queryConfig
     IN  /\ formData' = [name |-> data.name,
                         dashboardComponentId |-> data.dashboardComponentId,
                         order |-> data.orderValue,
                         rowIconName |-> data.rowIconName]
         /\ page2Data' = [selectedObjectApiName |-> config.objectApiName]
         /\ queryType' = config.queryType
         /\ aggregateFunction' = config.aggregateFunction
         /\ aggregateFieldApiName' = config.aggregateFieldApiName
         /\ IF config.objectApiName = NULL
            THEN /\ deserializeQueryConfig_restore(config)
                 /\ UNCHANGED <<allFields, fieldCache, fieldRequests>>
            ELSE IF config.objectApiName \in fieldCache
            THEN /\ allFields' = ObjectFields(config.objectApiName)
                 /\ deserializeQueryConfig_restore(config)
                 /\ UNCHANGED <<fieldCache, fieldRequests>>
            ELSE /\ Len(fieldRequests) < MaxPending
                 /\ fieldRequests' = Append(fieldRequests,
                      [obj |-> config.objectApiName, then |-> "deserialize"])
                 /\ loadRequest' = <<[phase |-> "loadFieldsForObject", config |-> <<config>>]>>
                 /\ UNCHANGED <<allFields, fieldCache, selectedFieldApiNames,
                                whereConditions, activeOwnerFilter, queryLimit, isLoading,
                                autoRefreshTimeoutId>>
  /\ UNCHANGED <<componentType, allObjects, conditionIdCounter, isSaving, error,
                 currentStep, recordId, objectsRequest, saveCalls, serverRecord>>
  /\ UNCHANGED <<previewVars, listVars>>

\* getObjectFields answers the request of deserializeQueryConfig, which goes on
\* to its end
deserializeQueryConfig_resolved(i) ==
  /\ i \in 1..Len(fieldRequests)
  /\ fieldRequests[i].then = "deserialize"
  /\ loadRequest # <<>>
  /\ loadRequest[1].phase = "loadFieldsForObject"
  /\ fieldRequests' = RemoveAt(fieldRequests, i)
  /\ fieldCache' = fieldCache \cup {fieldRequests[i].obj}
  /\ allFields' = ObjectFields(fieldRequests[i].obj)
  /\ deserializeQueryConfig_restore(loadRequest[1].config[1])
  /\ UNCHANGED <<formData, componentType, page2Data, queryType, aggregateFunction,
                 aggregateFieldApiName, allObjects, conditionIdCounter, isSaving, error,
                 currentStep, recordId, objectsRequest, saveCalls, serverRecord>>
  /\ UNCHANGED <<previewVars, listVars>>

(***************************************************************************)
(* SpecReload: a data source is built with the single-page builder (owner  *)
(* quick filters, limit), saved, and opened again for editing.  While the  *)
(* stored record loads the spinner covers the form, so the user acts only  *)
(* when isLoading is false.                                                *)
(***************************************************************************)
OwnerFilterTypes == {"me", "queue"}

NextReload ==
  \/ loadObjects_resolved
  \/ ~isLoading /\ handleObjectSelect("Account")
  \/ \E i \in 1..MaxPending : loadFieldsForObject_resolved(i)
  \/ \E b \in BOOLEAN : ~isLoading /\ handleFieldCheckboxChange("Name", b)
  \/ \E t \in OwnerFilterTypes : ~isLoading /\ hasOwnerField /\ handleOwnerFilterToggle(t)
  \/ \E v \in SampleLimits : ~isLoading /\ handleQueryLimitChange(v)
  \/ ~isLoading /\ handleNameChange(<<"D">>)
  \/ ~isLoading /\ handleDashboardComponentChange("cmpList")
  \/ wiredDashboardComponent("data")
  \/ ~isLoading /\ handleSave
  \/ \E i \in 1..MaxSaves : handleSave_resolved(i)
  \/ connectedCallback_edit
  \/ loadExistingData_resolved
  \/ \E i \in 1..MaxPending : deserializeQueryConfig_resolved(i)

SpecReload == Init /\ [][NextReload]_vars

\* C7: when the stored record has finished loading, the query state of the
\* builder (object, query type, selected fields, aggregate function and field,
\* WHERE conditions, owner filter, limit, and the SOQL generated from them) is
\* the query state the record was saved from.
SavedStateIsRestored ==
  [][(loadRequest # <<>> /\ loadRequest' = <<>>)
       => QueryState' = serverRecord[1].from]_vars

\* a condition an owner quick filter adds: "owned by me" or "owned by a queue"
isOwnerQuickCondition(c) ==
  \/ c.fieldApiName = "OwnerId" /\ c.operator = "equals" /\ c.value = UserIdValue
  \/ c.fieldApiName = "Owner.Type" /\ c.operator = "equals" /\ c.value = QueueValue

ownerQuickConditions ==
  {i \in 1..Len(whereConditions) : isOwnerQuickCondition(whereConditions[i])}

\* C8: the owner quick filters are mutually exclusive: at any time the WHERE
\* conditions hold at most one owner quick-filter condition, never both the
\* "owned by me" condition and the "queue" condition.
OwnerFiltersMutuallyExclusive == Cardinality(ownerQuickConditions) <= 1

(***************************************************************************)
(* hmConfigurableList: the list component.  A field value is a record with *)
(* its kind (null, number, text); a record of the query result carries its *)
(* Id as characters, the type attribute where Apex gave one, and fields.   *)
(***************************************************************************)
componentId == "cmp1"

MaxLoads == 2          \* executeComponentQuery calls in flight

LIST_COLUMN == "List Column"
OBJECT_PREFIXES ==
  ("ACCOUNT" :> <<"0", "0", "1">>) @@ ("CONTACT" :> <<"0", "0", "3">>) @@
  ("OPPORTUNITY" :> <<"0", "0", "6">>) @@ ("CASE" :> <<"5", "0", "0">>)
OBJECT_TYPES ==
  ("ACCOUNT" :> "Account") @@ ("CONTACT" :> "Contact") @@
  ("OPPORTUNITY" :> "Opportunity") @@ ("CASE" :> "Case") @@ ("UNKNOWN" :> "Unknown")

NullValue == [t |-> "null", n |-> 0, s |-> <<>>]
NumberValue(n) == [t |-> "number", n |-> n, s |-> <<>>]
TextValue(s) == [t |-> "text", n |-> 0, s |-> s]

\* the field of the record, null when the record has no such field (the
\* records of the model have no relationship paths)
getFieldValue(record, fieldApiName) ==
  IF fieldApiName \in DOMAIN record.fields THEN record.fields[fieldApiName]
  ELSE NullValue

getObjectType(record) ==
  IF record.attributesType # NULL THEN record.attributesType
  ELSE IF record.recordType # NULL THEN record.recordType
  ELSE IF record.objectType # NULL THEN record.objectType
  ELSE IF Len(record.Id) >= 3 /\ \E k \in DOMAIN OBJECT_PREFIXES :
                                    OBJECT_PREFIXES[k] = SubSeq(record.Id, 1, 3)
       THEN OBJECT_TYPES[CHOOSE k \in DOMAIN OBJECT_PREFIXES :
                           OBJECT_PREFIXES[k] = SubSeq(record.Id, 1, 3)]
  ELSE OBJECT_TYPES["UNKNOWN"]

columnAppliesToObject(column, objectType) ==
  \/ column.objectType = <<>>
  \/ objectType \in Range(column.objectType)

\* a cell: the key of its column, whether the column applies to the row, and
\* the raw value (the formatted text and the badge are presentation only)
createCellForColumn(record, column, objectType) ==
  IF ~columnAppliesToObject(column, objectType)
  THEN [key |-> column.key, rawValue |-> NullValue, applicable |-> FALSE]
  ELSE [key |-> column.key,
        rawValue |-> IF column.isSmartNameColumn /\ column.isVirtual
                     THEN (IF objectType = "Case"
                           THEN getFieldValue(record, "CaseNumber")
                           ELSE getFieldValue(record, "Name"))
                     ELSE getFieldValue(record, column.fieldApiName),
        applicable |-> TRUE]

RECURSIVE sortByDisplayOrder(_)
\* Array.prototype.sort on displayOrder (stable): the last element is placed
\* after the elements of the sorted rest that do not order after it
sortByDisplayOrder(maps) ==
  IF maps = <<>> THEN <<>>
  ELSE LET rest == sortByDisplayOrder(SubSeq(maps, 1, Len(maps) - 1))
           x == maps[Len(maps)]
           k == Cardinality({j \in 1..Len(rest) : rest[j].displayOrder <= x.displayOrder})
       IN  SubSeq(rest, 1, k) \o <<x>> \o SubSeq(rest, k + 1, Len(rest))

\* the columns of a configuration: its list-column detail maps in display order
buildColumns(config, sortingEnabled) ==
  LET maps == sortByDisplayOrder(
                SeqFilter(config.detailMaps,
                          {m \in Range(config.detailMaps) : m.mapType = LIST_COLUMN}))
  IN  [i \in 1..Len(maps) |->
         [key |-> <<"map", maps[i].id>>,
          fieldApiName |-> maps[i].fieldApiName,
          formatType |-> IF maps[i].formatType = NULL THEN "Text" ELSE maps[i].formatType,
          objectType |-> maps[i].objectType,
          sortable |-> sortingEnabled,
          sortDirection |-> NULL,
          isVirtual |-> FALSE,
          isSmartNameColumn |-> FALSE]]

createVirtualColumn(fieldApiName, formatType, isSmartNameColumn, sortingEnabled) ==
  [key |-> <<"virtual", fieldApiName>>,
   fieldApiName |-> fieldApiName,
   formatType |-> formatType,
   objectType |-> <<>>,
   sortable |-> sortingEnabled,
   sortDirection |-> NULL,
   isVirtual |-> TRUE,
   isSmartNameColumn |-> isSmartNameColumn]

\* formatRows with the columns of that moment
formatRows(data, cols) ==
  [i \in 1..Len(data) |->
     LET objectType == getObjectType(data[i])
         cells == [k \in 1..Len(cols) |-> createCellForColumn(data[i], cols[k], objectType)]
     IN  [id |-> data[i].Id,
          objectType |-> objectType,
          cells |-> cells,
          visibleCells |-> cells,
          record |-> data[i]]]

getUniqueObjectTypes(rws) == {rws[i].objectType : i \in 1..Len(rws)}

(***************************************************************************)
(* The steps of the list handlers are operators on the component state L   *)
(* (a record of the fields of the component), so that a handler is the     *)
(* composition of the steps it calls.                                      *)
(***************************************************************************)
\* e is evaluated once and handed to F
With(e, F(_)) == CHOOSE r \in {F(x) : x \in {e}} : TRUE

\* the index of the first element of s that is in wanted (Array.prototype.find
\* and findIndex), 0 when there is none
FirstIndex(s, wanted) ==
  IF \E i \in 1..Len(s) : s[i] \in wanted
  THEN CHOOSE i \in 1..Len(s) : s[i] \in wanted /\ \A j \in 1..(i - 1) : s[j] \notin wanted
  ELSE 0

ListState ==
  [componentConfig |-> componentConfig, columns |-> columns, rows |-> rows,
   filteredRows |-> filteredRows, isLoading |-> listIsLoading,
   errorMessage |-> errorMessage, filters |-> filters, activeFilter |-> activeFilter,
   currentPage |-> currentPage, recordsPerPage |-> recordsPerPage,
   enablePagination |-> enablePagination, totalPages |-> totalPages,
   sortColumn |-> sortColumn, sortDirection |-> sortDirection,
   enableColumnSorting |-> enableColumnSorting,
   cachedVisibleColumns |-> cachedVisibleColumns,
   cachedVisibleColumnsFilter |-> cachedVisibleColumnsFilter]

SetList(L) ==
  /\ componentConfig' = L.componentConfig
  /\ columns' = L.columns
  /\ rows' = L.rows
  /\ filteredRows' = L.filteredRows
  /\ listIsLoading' = L.isLoading
  /\ errorMessage' = L.errorMessage
  /\ filters' = L.filters
  /\ activeFilter' = L.activeFilter
  /\ currentPage' = L.currentPage
  /\ recordsPerPage' = L.recordsPerPage
  /\ enablePagination' = L.enablePagination
  /\ totalPages' = L.totalPages
  /\ sortColumn' = L.sortColumn
  /\ sortDirection' = L.sortDirection
  /\ enableColumnSorting' = L.enableColumnSorting
  /\ cachedVisibleColumns' = L.cachedVisibleColumns
  /\ cachedVisibleColumnsFilter' = L.cachedVisibleColumnsFilter

showAllRecordsFilter(L) ==
  L.componentConfig # <<>> /\ L.componentConfig[1].showAllRecordsFilter

\* the key of the visible-columns cache
cacheKey(L) ==
  <<L.activeFilter, Len(L.columns), Len(L.rows),
    IF L.componentConfig = <<>> THEN "undefined"
    ELSE IF L.componentConfig[1].showAllRecordsFilter THEN "true" ELSE "false">>

\* the body of the visibleColumns getter after the cache check
computeVisibleColumns(L) ==
  IF L.activeFilter = NULL \/ L.activeFilter = "all"
  THEN
    LET objectTypes == getUniqueObjectTypes(L.rows)
        hasNameColumnWithNoRestriction ==
          \E c \in Range(L.columns) : c.fieldApiName = "Name" /\ c.objectType = <<>>
        hasCreatedDateColumnWithNoRestriction ==
          \E c \in Range(L.columns) : c.fieldApiName = "CreatedDate" /\ c.objectType = <<>>
        nameColumn == createVirtualColumn("Name", "Text", TRUE, L.enableColumnSorting)
        createdDateColumn ==
          createVirtualColumn("CreatedDate", "Date", FALSE, L.enableColumnSorting)
    IN  With(SeqFilter(L.columns, {c \in Range(L.columns) : c.objectType = <<>>}),
             LAMBDA unrestricted :
          IF ~(showAllRecordsFilter(L) /\ L.rows # <<>>) THEN unrestricted
          ELSE
            With(IF ({"Account", "Opportunity", "Case"} \cap objectTypes # {})
                    /\ ~hasNameColumnWithNoRestriction
                 THEN <<nameColumn>> \o unrestricted ELSE unrestricted,
                 LAMBDA withName :
              IF hasCreatedDateColumnWithNoRestriction THEN withName
              ELSE
                With(FirstIndex(withName,
                                {c \in Range(withName) : c.fieldApiName = "Name"}),
                     LAMBDA nameIndex :
                  IF nameIndex > 0
                  THEN SubSeq(withName, 1, nameIndex) \o <<createdDateColumn>>
                         \o SubSeq(withName, nameIndex + 1, Len(withName))
                  ELSE <<createdDateColumn>> \o withName)))
  ELSE SeqFilter(L.columns,
                 {c \in Range(L.columns) : columnAppliesToObject(c, L.activeFilter)})

cacheHit(L) ==
  L.cachedVisibleColumns # <<>> /\ L.cachedVisibleColumnsFilter = cacheKey(L)

\* what the visibleColumns getter returns
visibleColumns(L) ==
  IF cacheHit(L) THEN L.cachedVisibleColumns[1] ELSE computeVisibleColumns(L)

\* the state the getter leaves: the result cached under the key
visibleColumns_cached(L) ==
  IF cacheHit(L) THEN L
  ELSE [L EXCEPT !.cachedVisibleColumns = <<computeVisibleColumns(L)>>,
                 !.cachedVisibleColumnsFilter = cacheKey(L)]

findCellForColumn(row, column) ==
  IF column.isVirtual
  THEN createCellForColumn(row.record, column, row.objectType)
  ELSE IF \E k \in 1..Len(row.cells) : row.cells[k].key = column.key
  THEN row.cells[CHOOSE k \in 1..Len(row.cells) :
                   /\ row.cells[k].key = column.key
                   /\ \A j \in 1..(k - 1) : row.cells[j].key # column.key]
  ELSE [key |-> column.key, rawValue |-> NullValue, applicable |-> FALSE]

\* the value a column without a cell takes from the record of the row
getRecordValue(row, column) ==
  IF column.isVirtual /\ column.isSmartNameColumn
  THEN (IF row.objectType = "Case"
        THEN getFieldValue(row.record, "CaseNumber")
        ELSE getFieldValue(row.record, "Name"))
  ELSE getFieldValue(row.record, column.fieldApiName)

getCellValue(row, columnKey, L) ==
  With(FirstIndex(row.cells, {c \in Range(row.cells) : c.key = columnKey}),
       LAMBDA inCells :
    IF inCells > 0 THEN row.cells[inCells].rawValue
    ELSE
      With(FirstIndex(row.visibleCells,
                      {c \in Range(row.visibleCells) : c.key = columnKey}),
           LAMBDA inVisible :
        IF inVisible > 0 THEN row.visibleCells[inVisible].rawValue
        ELSE
          With(visibleColumns(L), LAMBDA vcols :
            With(FirstIndex(vcols, {c \in Range(vcols) : c.key = columnKey}), LAMBDA v :
              With(FirstIndex(L.columns, {c \in Range(L.columns) : c.key = columnKey}),
                   LAMBDA k :
                IF v = 0 /\ k = 0 THEN NullValue
                ELSE getRecordValue(row, IF v > 0 THEN vcols[v] ELSE L.columns[k]))))))

Alphabet == <<"0", "1", "2", "3", "4", "5", "6", "7", "8", "9",
              "a", "b", "c", "d", "e", "f", "g", "h", "i", "j", "k", "l", "m",
              "n", "o", "p", "q", "r", "s", "t", "u", "v", "w", "x", "y", "z">>

CharRank(ch) ==
  IF \E i \in 1..Len(Alphabet) : Alphabet[i] = ch
  THEN CHOOSE i \in 1..Len(Alphabet) : Alphabet[i] = ch
  ELSE 0

RECURSIVE localeCompare(_, _)
\* String.prototype.localeCompare on lower-case letters and digits
localeCompare(a, b) ==
  IF a = <<>> /\ b = <<>> THEN 0
  ELSE IF a = <<>> THEN -1
  ELSE IF b = <<>> THEN 1
  ELSE IF CharRank(Head(a)) # CharRank(Head(b))
  THEN (IF CharRank(Head(a)) < CharRank(Head(b)) THEN -1 ELSE 1)
  ELSE localeCompare(Tail(a), Tail(b))

RECURSIVE DecimalOf(_)
\* String(n) of a natural number
DecimalOf(n) ==
  IF n < 10 THEN <<Alphabet[n + 1]>> ELSE DecimalOf(n \div 10) \o <<Alphabet[(n % 10) + 1]>>

StringOf(v) == IF v.t = "text" THEN v.s ELSE DecimalOf(v.n)
\* Number(value) || 0: a text that is no number counts as 0
NumberOf(v) == IF v.t = "number" THEN v.n ELSE 0

compareCellValues(aValue, bValue, formatType, direction) ==
  IF aValue.t = "null" THEN 1
  ELSE IF bValue.t = "null" THEN -1
  ELSE LET comparison ==
             IF formatType \in {"Currency", "Number", "Percent"}
             THEN NumberOf(aValue) - NumberOf(bValue)
             ELSE IF formatType = "Date"
             THEN (IF aValue.t = "number" /\ bValue.t = "number"
                   THEN aValue.n - bValue.n ELSE 0)
             ELSE localeCompare(toLowerCase(StringOf(aValue)),
                                toLowerCase(StringOf(bValue)))
       IN  IF direction = "asc" THEN comparison ELSE 0 - comparison

\* insertRow that compares as if the direction were always ascending
insertRow_ignoresDirection(rest, x, columnKey, direction, formatType, L) ==
  With({j \in 1..Len(rest) :
          \E a \in {getCellValue(rest[j], columnKey, L)} :
            \E b \in {getCellValue(x, columnKey, L)} :
              compareCellValues(a, b, formatType, "asc") <= 0},
       LAMBDA notAfter :
    With(IF notAfter = {} THEN 0
         ELSE CHOOSE j \in notAfter : \A i \in notAfter : i <= j,
         LAMBDA k : SubSeq(rest, 1, k) \o <<x>> \o SubSeq(rest, k + 1, Len(rest))))

\* the place of row x in the sorted rows rest: after the last row that does
\* not order after it
insertRow(rest, x, columnKey, direction, formatType, L) ==
  With({j \in 1..Len(rest) :
          \E a \in {getCellValue(rest[j], columnKey, L)} :
            \E b \in {getCellValue(x, columnKey, L)} :
              compareCellValues(a, b, formatType, direction) <= 0},
       LAMBDA notAfter :
    With(IF notAfter = {} THEN 0
         ELSE CHOOSE j \in notAfter : \A i \in notAfter : i <= j,
         LAMBDA k : SubSeq(rest, 1, k) \o <<x>> \o SubSeq(rest, k + 1, Len(rest))))

RECURSIVE sortRows(_, _, _, _, _)
\* [...rows].sort(comparator), a stable sort
sortRows(rws, columnKey, direction, formatType, L) ==
  IF rws = <<>> THEN <<>>
  ELSE With(sortRows(SubSeq(rws, 1, Len(rws) - 1), columnKey, direction, formatType, L),
            LAMBDA rest :
              With(rws[Len(rws)], LAMBDA x :
                insertRow(rest, x, columnKey, direction, formatType, L)))

\* the order of the object type names under Array.prototype.sort
TypeRank(objectType) ==
  IF objectType = "Account" THEN 1 ELSE IF objectType = "Case" THEN 2
  ELSE IF objectType = "Contact" THEN 3 ELSE IF objectType = "Opportunity" THEN 4
  ELSE 5

RECURSIVE sortTypes(_)
sortTypes(types) ==
  IF types = {} THEN <<>>
  ELSE LET first == CHOOSE t \in types : \A u \in types : TypeRank(t) <= TypeRank(u)
       IN  <<first>> \o sortTypes(types \ {first})

\* buildFilters that builds the tabs for a single object type as well
buildFilters_singleTypeToo(L) ==
  IF L.rows = <<>> THEN [L EXCEPT !.filters = <<>>]
  ELSE
    LET objectTypes == getUniqueObjectTypes(L.rows)
        showAllTab == showAllRecordsFilter(L)
        sortedObjectTypes == sortTypes(objectTypes)
        active == IF L.activeFilter # NULL THEN L.activeFilter
                  ELSE IF showAllTab THEN "all" ELSE sortedObjectTypes[1]
    IN  [L EXCEPT
           !.activeFilter = active,
           !.filters =
             (IF showAllTab
              THEN <<[value |-> "all", count |-> Len(L.rows),
                      active |-> L.activeFilter \in {NULL, "all"}]>>
              ELSE <<>>)
             \o [i \in 1..Len(sortedObjectTypes) |->
                   [value |-> sortedObjectTypes[i],
                    count |-> Cardinality({k \in 1..Len(L.rows) :
                                             L.rows[k].objectType = sortedObjectTypes[i]}),
                    active |-> active = sortedObjectTypes[i]]]]

\* with rows present there is at least one object type, so the branch that
\* infers a type from the configuration is never taken
buildFilters(L) ==
  IF L.rows = <<>> THEN [L EXCEPT !.filters = <<>>]
  ELSE
    LET objectTypes == getUniqueObjectTypes(L.rows)
        typeCount(t) == Cardinality({i \in 1..Len(L.rows) : L.rows[i].objectType = t})
        showAllTab == showAllRecordsFilter(L)
        allIsActive == L.activeFilter = NULL \/ L.activeFilter = "all"
        sortedObjectTypes == sortTypes(objectTypes)
        active == IF L.activeFilter # NULL THEN L.activeFilter
                  ELSE IF showAllTab THEN "all" ELSE sortedObjectTypes[1]
    IN  IF Cardinality(objectTypes) < 2
        THEN [L EXCEPT !.filters = <<>>,
                       !.activeFilter = CHOOSE t \in objectTypes : TRUE]
        ELSE [L EXCEPT
                !.activeFilter = active,
                !.filters =
                  (IF showAllTab
                   THEN <<[value |-> "all", count |-> Len(L.rows), active |-> allIsActive]>>
                   ELSE <<>>)
                  \o [i \in 1..Len(sortedObjectTypes) |->
                        [value |-> sortedObjectTypes[i],
                         count |-> typeCount(sortedObjectTypes[i]),
                         active |-> active = sortedObjectTypes[i]]]]

updatePagination(L) ==
  IF ~L.enablePagination THEN [L EXCEPT !.totalPages = 1]
  ELSE LET totalRecords == Len(L.filteredRows)
           pages == (totalRecords + L.recordsPerPage - 1) \div L.recordsPerPage
           total == IF pages > 1 THEN pages ELSE 1
       IN  [L EXCEPT !.totalPages = total,
                     !.currentPage = IF @ > total THEN total ELSE @]

\* the end of applyFilter: sorting, the active marks of the filter buttons,
\* the first page, pagination, and the cache dropped
applyFilter_finish(L, vcols) ==
  With(FirstIndex(vcols, {c \in Range(vcols) : c.key = L.sortColumn}), LAMBDA v :
    With(FirstIndex(L.columns, {c \in Range(L.columns) : c.key = L.sortColumn}),
         LAMBDA k :
      With([L EXCEPT
              !.filteredRows =
                 IF L.enableColumnSorting /\ L.sortColumn # <<>> /\ (v > 0 \/ k > 0)
                 THEN sortRows(L.filteredRows, L.sortColumn, L.sortDirection,
                               (IF v > 0 THEN vcols[v] ELSE L.columns[k]).formatType, L)
                 ELSE L.filteredRows,
              !.filters = [i \in 1..Len(L.filters) |->
                             [L.filters[i] EXCEPT
                                !.active = (L.filters[i].value = L.activeFilter)]],
              !.currentPage = 1],
           LAMBDA L2 : [updatePagination(L2) EXCEPT !.cachedVisibleColumns = <<>>,
                                                    !.cachedVisibleColumnsFilter = <<>>])))

passesFilter(L, row) ==
  L.activeFilter = NULL \/ L.activeFilter = "all" \/ row.objectType = L.activeFilter

\* applyFilter without the rebuilding of visibleCells
applyFilter_cellsNotRebuilt(L) ==
  With(visibleColumns(L), LAMBDA vcols :
    With([visibleColumns_cached(L) EXCEPT
            !.filteredRows = SeqFilter(L.rows, {r \in Range(L.rows) : passesFilter(L, r)})],
         LAMBDA L1 : applyFilter_finish(L1, vcols)))

\* the rows are shared by rows and filteredRows, so the visibleCells written
\* through filteredRows are those of the rows in rows as well
applyFilter(L) ==
  With(visibleColumns(L), LAMBDA vcols :
    With([i \in 1..Len(L.rows) |->
            IF passesFilter(L, L.rows[i])
            THEN [L.rows[i] EXCEPT !.visibleCells =
                    [k \in 1..Len(vcols) |-> findCellForColumn(L.rows[i], vcols[k])]]
            ELSE L.rows[i]],
         LAMBDA rows1 :
           With([visibleColumns_cached(L) EXCEPT
                   !.rows = rows1,
                   !.filteredRows =
                      SeqFilter(rows1, {r \in Range(rows1) : passesFilter(L, r)})],
                LAMBDA L1 : applyFilter_finish(L1, vcols))))

paginatedRows ==
  IF ~enablePagination THEN filteredRows
  ELSE LET startIndex == (currentPage - 1) * recordsPerPage
           endIndex == startIndex + recordsPerPage
       IN  SubSeq(filteredRows, startIndex + 1,
                  IF endIndex < Len(filteredRows) THEN endIndex ELSE Len(filteredRows))

showFilters == Len(filters) >= 2

validateLoadDataInputs(L) == L.componentConfig # <<>> /\ componentId # ""

\* loadData up to its await of executeComponentQuery
loadData(L) ==
  IF ~validateLoadDataInputs(L)
  THEN /\ SetList([L EXCEPT !.isLoading = FALSE])
       /\ UNCHANGED queryRequests
  ELSE /\ Len(queryRequests) < MaxLoads
       /\ SetList([L EXCEPT !.isLoading = TRUE, !.errorMessage = NULL])
       /\ queryRequests' = Append(queryRequests, [componentId |-> componentId])

\* the configuration wire answers with data, or with an error (config = <<>>)
wiredConfig(config) ==
  /\ IF config # <<>>
     THEN LET data == config[1]
          IN  \E L1 \in {[ListState EXCEPT
                 !.componentConfig = config,
                 !.errorMessage = NULL,
                 !.enablePagination = data.enablePagination,
                 !.recordsPerPage = IF data.recordsPerPage = 0 THEN DEFAULT_PAGE_SIZE
                                    ELSE data.recordsPerPage,
                 !.enableColumnSorting = data.enableColumnSorting,
                 !.columns = buildColumns(data, data.enableColumnSorting),
                 !.cachedVisibleColumns = <<>>,
                 !.cachedVisibleColumnsFilter = <<>>]} : loadData(L1)
     ELSE /\ SetList([ListState EXCEPT !.errorMessage = "Unknown error",
                                       !.isLoading = FALSE])
          /\ UNCHANGED queryRequests
  /\ UNCHANGED builderVars

\* processDataResponse: the state it leaves, and whether loadData goes on
processDataResponse(L, response) ==
  IF ~response.success
  THEN [ok |-> TRUE, L |-> [L EXCEPT !.rows = <<>>]]
  ELSE IF response.shape = "LIST"
  THEN [ok |-> TRUE,
        L |-> [L EXCEPT !.rows = formatRows(response.rows, L.columns),
                        !.cachedVisibleColumns = <<>>,
                        !.cachedVisibleColumnsFilter = <<>>]]
  ELSE [ok |-> FALSE,
        L |-> [L EXCEPT !.errorMessage = "List component requires LIST shape",
                        !.rows = <<>>, !.filteredRows = <<>>, !.filters = <<>>]]

\* executeComponentQuery answers the i-th call in flight
loadData_resolved(i, response) ==
  /\ i \in 1..Len(queryRequests)
  /\ queryRequests' = RemoveAt(queryRequests, i)
  /\ \E processed \in {processDataResponse(ListState, response)} :
       IF processed.ok
       THEN \E L1 \in {buildFilters(processed.L)} :
              \E L2 \in {applyFilter(L1)} :
                \E L3 \in {updatePagination(L2)} :
                  SetList([L3 EXCEPT !.isLoading = FALSE])
       ELSE SetList([processed.L EXCEPT !.isLoading = FALSE])
  /\ UNCHANGED builderVars

\* executeComponentQuery fails: handleLoadDataError
loadData_rejected(i) ==
  /\ i \in 1..Len(queryRequests)
  /\ queryRequests' = RemoveAt(queryRequests, i)
  /\ SetList([ListState EXCEPT !.errorMessage = "Unknown error occurred",
                               !.rows = <<>>, !.filteredRows = <<>>, !.filters = <<>>,
                               !.isLoading = FALSE])
  /\ UNCHANGED builderVars

handleFilterClick(filterValue) ==
  /\ IF filterValue # ""
     THEN \E L0 \in {[ListState EXCEPT !.activeFilter = filterValue]} :
            \E L1 \in {applyFilter(L0)} : SetList(L1)
     ELSE UNCHANGED listVars
  /\ UNCHANGED <<queryRequests, builderVars>>

\* page is the text of the data-page attribute of the button
handlePageChange(page) ==
  /\ LET p == parseInt(page)
     IN  currentPage' = IF p # 0 /\ p >= 1 /\ p <= totalPages THEN p ELSE currentPage
  /\ UNCHANGED <<componentConfig, columns, rows, filteredRows, listIsLoading, errorMessage,
                 filters, activeFilter, recordsPerPage, enablePagination, totalPages,
                 sortColumn, sortDirection, enableColumnSorting, cachedVisibleColumns,
                 cachedVisibleColumnsFilter, queryRequests>>
  /\ UNCHANGED builderVars

handlePreviousPage ==
  /\ currentPage' = IF currentPage > 1 THEN currentPage - 1 ELSE currentPage
  /\ UNCHANGED <<componentConfig, columns, rows, filteredRows, listIsLoading, errorMessage,
                 filters, activeFilter, recordsPerPage, enablePagination, totalPages,
                 sortColumn, sortDirection, enableColumnSorting, cachedVisibleColumns,
                 cachedVisibleColumnsFilter, queryRequests>>
  /\ UNCHANGED builderVars

\* handleNextPage without the test against totalPages
handleNextPage_unguarded ==
  /\ currentPage' = currentPage + 1
  /\ UNCHANGED <<componentConfig, columns, rows, filteredRows, listIsLoading, errorMessage,
                 filters, activeFilter, recordsPerPage, enablePagination, totalPages,
                 sortColumn, sortDirection, enableColumnSorting, cachedVisibleColumns,
                 cachedVisibleColumnsFilter, queryRequests>>
  /\ UNCHANGED builderVars

handleNextPage ==
  /\ currentPage' = IF currentPage < totalPages THEN currentPage + 1 ELSE currentPage
  /\ UNCHANGED <<componentConfig, columns, rows, filteredRows, listIsLoading, errorMessage,
                 filters, activeFilter, recordsPerPage, enablePagination, totalPages,
                 sortColumn, sortDirection, enableColumnSorting, cachedVisibleColumns,
                 cachedVisibleColumnsFilter, queryRequests>>
  /\ UNCHANGED builderVars

\* the sort state of the column objects; the cached visible columns are the
\* same objects (the virtual ones exist only there)
updateColumnSortState(L) ==
  LET marked(col) == [col EXCEPT !.sortDirection =
                        IF col.key = L.sortColumn THEN L.sortDirection ELSE NULL]
  IN  With(visibleColumns_cached(L), LAMBDA L1 :
        [L1 EXCEPT
           !.columns = [i \in 1..Len(L.columns) |-> marked(L.columns[i])],
           !.cachedVisibleColumns =
              <<[i \in 1..Len(L1.cachedVisibleColumns[1]) |->
                   marked(L1.cachedVisibleColumns[1][i])]>>])

handleColumnSort(columnKey) ==
  /\ IF ~enableColumnSorting \/ columnKey = <<>>
     THEN UNCHANGED listVars
     ELSE \E L0 \in {IF sortColumn = columnKey
                     THEN [ListState EXCEPT
                             !.sortDirection = IF @ = "asc" THEN "desc" ELSE "asc"]
                     ELSE [ListState EXCEPT !.sortColumn = columnKey,
                                            !.sortDirection = "asc"]} :
            \E L1 \in {updateColumnSortState(L0)} :
              \E L2 \in {applyFilter(L1)} : SetList(L2)
  /\ UNCHANGED <<queryRequests, builderVars>>

\* the template reads the visibleColumns getter
visibleColumns_read ==
  /\ ~cacheHit(ListState)
  /\ \E L1 \in {visibleColumns_cached(ListState)} : SetList(L1)
  /\ UNCHANGED <<queryRequests, builderVars>>

(***************************************************************************)
(* SpecList: the list under configuration updates, query answers, filter   *)
(* clicks, column sorts and page navigation.                               *)
(***************************************************************************)
DetailMap(id, mapType, fieldApiName, formatType, objectType, displayOrder) ==
  [id |-> id, mapType |-> mapType, fieldApiName |-> fieldApiName,
   formatType |-> formatType, objectType |-> objectType, displayOrder |-> displayOrder]

\* one row a page, sorting, the All tab; Name is configured for every type
ConfigPaged ==
  [detailMaps |-> <<DetailMap("m3", LIST_COLUMN, "Priority", NULL, <<"Case">>, 3),
                    DetailMap("m9", "Tile Value", "Total", "Number", <<>>, 0),
                    DetailMap("m1", LIST_COLUMN, "Name", "Text", <<>>, 1),
                    DetailMap("m2", LIST_COLUMN, "Amount", "Currency", <<"Account">>, 2)>>,
   enablePagination |-> TRUE, recordsPerPage |-> 1,
   enableColumnSorting |-> TRUE, showAllRecordsFilter |-> TRUE]

\* no pagination (and no page size), no sorting, no All tab
ConfigPlain ==
  [detailMaps |-> <<DetailMap("m4", LIST_COLUMN, "Status", "Text", <<>>, 0),
                    DetailMap("m2", LIST_COLUMN, "Amount", "Currency", <<"Account">>, 1)>>,
   enablePagination |-> FALSE, recordsPerPage |-> 0,
   enableColumnSorting |-> FALSE, showAllRecordsFilter |-> FALSE]

\* two rows a page, only type-specific columns: the All tab adds virtual ones
ConfigVirtual ==
  [detailMaps |-> <<DetailMap("m2", LIST_COLUMN, "Amount", "Currency", <<"Account">>, 1),
                    DetailMap("m3", LIST_COLUMN, "Priority", "Text", <<"Case">>, 2)>>,
   enablePagination |-> TRUE, recordsPerPage |-> 2,
   enableColumnSorting |-> TRUE, showAllRecordsFilter |-> TRUE]

SampleConfigs == {ConfigPaged, ConfigPlain, ConfigVirtual}

Acct1 ==
  [Id |-> <<"0", "0", "1", "a">>, attributesType |-> "Account", recordType |-> NULL,
   objectType |-> NULL,
   fields |-> [Name |-> TextValue(<<"b">>), Amount |-> NumberValue(20),
               Status |-> TextValue(<<"o">>), CreatedDate |-> NumberValue(3)]]
Acct2 ==
  [Id |-> <<"0", "0", "1", "b">>, attributesType |-> "Account", recordType |-> NULL,
   objectType |-> NULL,
   fields |-> [Name |-> TextValue(<<"A">>), Amount |-> NumberValue(10),
               Status |-> TextValue(<<"c">>), CreatedDate |-> NumberValue(2)]]
\* no type attribute: the type comes from the Id prefix
Case1 ==
  [Id |-> <<"5", "0", "0", "a">>, attributesType |-> NULL, recordType |-> NULL,
   objectType |-> NULL,
   fields |-> [CaseNumber |-> TextValue(<<"7">>), Priority |-> TextValue(<<"a">>),
               Status |-> TextValue(<<"n">>), CreatedDate |-> NumberValue(1)]]

SampleResponses ==
  {[success |-> TRUE, shape |-> "LIST", rows |-> <<Acct1, Case1, Acct2>>],
   [success |-> TRUE, shape |-> "LIST", rows |-> <<Acct1, Acct2>>],
   [success |-> TRUE, shape |-> "AGGREGATE", rows |-> <<>>],
   [success |-> FALSE, shape |-> NULL, rows |-> <<>>]}

SamplePages == {<<"0">>, <<"2">>, <<"3">>, <<"9">>}

NextList ==
  \/ \E c \in SampleConfigs : wiredConfig(<<c>>)
  \/ wiredConfig(<<>>)
  \/ \E i \in 1..MaxLoads, r \in SampleResponses : loadData_resolved(i, r)
  \/ \E i \in 1..MaxLoads : loadData_rejected(i)
  \/ \E i \in 1..Len(filters) : showFilters /\ handleFilterClick(filters[i].value)
  \/ \E p \in SamplePages : enablePagination /\ handlePageChange(p)
  \/ enablePagination /\ handlePreviousPage
  \/ enablePagination /\ handleNextPage
  \/ \E c \in Range(visibleColumns(ListState)) : handleColumnSort(c.key)
  \/ visibleColumns_read

SpecList == Init /\ [][NextList]_vars

\* C9: after any sequence of data loads, filter clicks, column sorts and page
\* navigation, 1 <= currentPage <= totalPages
CurrentPageWithinTotalPages == 1 <= currentPage /\ currentPage <= totalPages

\* the user has gone to the last of three pages of a loaded list
OnLastOfThreePages ==
  /\ ~listIsLoading
  /\ enablePagination
  /\ totalPages = 3
  /\ currentPage = 3
  /\ Len(paginatedRows) = 1

\* the list can be rendered: loading is over and no error message stands in
\* its place
rendered == ~listIsLoading /\ errorMessage = NULL

CellKeys(cells) == [k \in 1..Len(cells) |-> cells[k].key]

\* C10: whenever the list can be rendered, every displayed row has in
\* visibleCells exactly one cell for each visible column, in the order of
\* visibleColumns
VisibleCellsMatchVisibleColumns ==
  rendered =>
    \A i \in 1..Len(paginatedRows) :
      CellKeys(paginatedRows[i].visibleCells) = CellKeys(visibleColumns(ListState))

\* a type filter that hides a configured column is active on a sorted, loaded
\* list with a row on display
FilteredSortedListDisplayed ==
  /\ rendered
  /\ activeFilter \notin {NULL, "all"}
  /\ sortColumn # <<>>
  /\ Len(paginatedRows) >= 1
  /\ Len(visibleColumns(ListState)) < Len(columns)
  /\ Len(visibleColumns(ListState)) >= 2

\* C11: the filter tabs are shown exactly when the loaded rows contain two or
\* more distinct object types
FilterTabsIffTwoObjectTypes ==
  showFilters <=> Cardinality(getUniqueObjectTypes(rows)) >= 2

\* a loaded list of three rows of two object types shows its tabs without
\* the All tab
TabsShownForTwoObjectTypes ==
  /\ ~listIsLoading
  /\ Len(rows) = 3
  /\ Cardinality(getUniqueObjectTypes(rows)) = 2
  /\ showFilters
  /\ Len(filters) = 2

\* the rows the paginatedRows getter returns on page p
rowsOnPage(p) ==
  IF ~enablePagination THEN filteredRows
  ELSE LET startIndex == (p - 1) * recordsPerPage
           endIndex == startIndex + recordsPerPage
       IN  SubSeq(filteredRows, startIndex + 1,
                  IF endIndex < Len(filteredRows) THEN endIndex ELSE Len(filteredRows))

\* the column applyFilter sorts by: the visible column with the key of
\* sortColumn, else the configured one, else none
sortedColumn ==
  LET vcols == visibleColumns(ListState)
      v == FirstIndex(vcols, {c \in Range(vcols) : c.key = sortColumn})
      k == FirstIndex(columns, {c \in Range(columns) : c.key = sortColumn})
  IN  IF v > 0 THEN <<vcols[v]>> ELSE IF k > 0 THEN <<columns[k]>> ELSE <<>>

\* row a orders no later than row b under the sort column and direction:
\* rows without a value go to the end, the others compare by their values
ordersNoLater(a, b) ==
  LET aValue == getCellValue(a, sortColumn, ListState)
      bValue == getCellValue(b, sortColumn, ListState)
      formatType == IF sortedColumn = <<>> THEN "Text" ELSE sortedColumn[1].formatType
  IN  \/ bValue.t = "null"
      \/ /\ aValue.t # "null"
         /\ compareCellValues(aValue, bValue, formatType, sortDirection) <= 0

filteredRowsSorted ==
  \A i, j \in 1..Len(filteredRows) : i < j => ordersNoLater(filteredRows[i], filteredRows[j])

pagesInOrder ==
  \A p \in 1..(totalPages - 1) :
    \A i \in 1..Len(rowsOnPage(p)), j \in 1..Len(rowsOnPage(p + 1)) :
      ordersNoLater(rowsOnPage(p)[i], rowsOnPage(p + 1)[j])

pageNavigation ==
  \/ \E p \in SamplePages : handlePageChange(p)
  \/ handlePreviousPage
  \/ handleNextPage

\* C12 as stated: whenever the list can be rendered and a sort column is set,
\* the filtered rows are sorted as a whole and every row on a page orders no
\* later than every row on the following page
SortColumnSetPagesInOrder ==
  (rendered /\ sortColumn # <<>>) => (filteredRowsSorted /\ pagesInOrder)

\* C12 amended: whenever the list can be rendered, column sorting is enabled
\* and a sort column is set, the filtered rows are sorted as a whole and every
\* row on a page orders no later than every row on the following page; and a
\* page navigation step leaves the order of the filtered rows as it is
SortedBeforePagination ==
  /\ []((rendered /\ enableColumnSorting /\ sortColumn # <<>>)
          => (filteredRowsSorted /\ pagesInOrder))
  /\ [][pageNavigation => filteredRows' = filteredRows]_vars

\* a list of three rows sorted in descending direction over three pages, the
\* second page on display
SortedListOnSecondPage ==
  /\ rendered
  /\ enableColumnSorting
  /\ sortedColumn # <<>>
  /\ sortDirection = "desc"
  /\ totalPages = 3
  /\ currentPage = 2
  /\ Len(paginatedRows) = 1
  /\ ~ordersNoLater(filteredRows[3], filteredRows[1])

(***************************************************************************)
(* SpecFields: the object picker of the builder with two objects, while    *)
(* getObjectFields requests are in flight.                                 *)
(***************************************************************************)
NextFields ==
  \/ loadObjects_resolved
  \/ \E o \in Range(AccessibleObjects) : handleObjectSelect(o)
  \/ \E i \in 1..MaxPending : loadFieldsForObject_resolved(i)
  \/ handleObjectClear
  \/ \E f \in {"Name", "Amount", "Subject"}, b \in BOOLEAN :
       handleFieldCheckboxChange(f, b)
  \/ \E t \in {"List", "Aggregate"} : handleQueryTypeChange(t)
  \/ \E a \in SampleAggregateFunctions :
       isAggregateMode /\ handleAggregateFunctionChange(a)
  \/ isAggregateMode /\ handleAggregateFieldSelect("Amount")

SpecFields == Init /\ [][NextFields]_vars

\* C13: once no getObjectFields request is in flight, allFields holds the
\* fields of the selected object
AllFieldsOfSelectedObject ==
  (fieldRequests = <<>> /\ page2Data.selectedObjectApiName # NULL)
    => allFields = ObjectFields(page2Data.selectedObjectApiName)

(***************************************************************************)
(* The preview of the single-page builder: the debounce timer of           *)
(* updateSoqlPreview fires triggerAutoRefresh, which calls                 *)
(* executeQueryPreview; a list query waits for executePreviewQuery.        *)
(***************************************************************************)
MaxPreviews == 2       \* executePreviewQuery calls in flight

\* the arguments of executePreviewQuery
PreviewArguments ==
  [objectApiName |-> page2Data.selectedObjectApiName,
   fieldApiNames |-> selectedFieldApiNames,
   whereClause |-> IF buildWhereClause = <<>> THEN NULL ELSE Flatten(buildWhereClause),
   queryLimit |-> queryLimit]

\* result.rows of executePreviewQuery: the rows the org holds for the query
PreviewRows(arguments) == <<[rowsOf |-> arguments]>>

\* executeAggregatePreview: one row with the aggregate expression
AggregatePreviewRows ==
  <<[expression |-> IF aggregateFunction = "COUNT" /\ aggregateFieldApiName = NULL
                    THEN <<"COUNT", "(", ")">>
                    ELSE <<aggregateFunction, "(", aggregateFieldApiName, ")">>,
     description |-> aggregateFunction]>>

selectedFunctionRequiresField ==
  aggregateFunction # NULL /\ getSelectedAggregateFunction.requiresField

\* executeQueryPreview up to its await of executePreviewQuery; the aggregate
\* preview has nothing to wait for and ends here
executeQueryPreview ==
  IF page2Data.selectedObjectApiName = NULL
  THEN /\ queryError' = "Object is required"
       /\ UNCHANGED <<queryResults, isQueryLoading, previewRequests, lastPreview>>
  ELSE IF isListMode /\ selectedFieldApiNames = <<>>
  THEN /\ queryError' = "At least one field must be selected"
       /\ UNCHANGED <<queryResults, isQueryLoading, previewRequests, lastPreview>>
  ELSE IF isAggregateMode /\ aggregateFunction = NULL
  THEN /\ queryError' = "Aggregate function is required"
       /\ UNCHANGED <<queryResults, isQueryLoading, previewRequests, lastPreview>>
  ELSE IF isAggregateMode /\ selectedFunctionRequiresField /\ aggregateFieldApiName = NULL
  THEN /\ queryError' = "Field is required for this aggregate function"
       /\ UNCHANGED <<queryResults, isQueryLoading, previewRequests, lastPreview>>
  ELSE IF isListMode
  THEN /\ Len(previewRequests) < MaxPreviews
       /\ isQueryLoading' = TRUE
       /\ queryError' = NULL
       /\ queryResults' = <<>>
       /\ previewRequests' = Append(previewRequests, PreviewArguments)
       /\ lastPreview' = <<PreviewRows(PreviewArguments)>>
  ELSE /\ isQueryLoading' = FALSE
       /\ queryError' = NULL
       /\ queryResults' = AggregatePreviewRows
       /\ lastPreview' = <<AggregatePreviewRows>>
       /\ UNCHANGED previewRequests

PreviewFrame ==
  /\ UNCHANGED <<formData, componentType, page2Data, queryType, aggregateFunction,
                 aggregateFieldApiName, allObjects, allFields, selectedFieldApiNames,
                 fieldCache, whereConditions, conditionIdCounter, activeOwnerFilter,
                 queryLimit, isLoading, isSaving, error, currentStep, recordId,
                 objectsRequest, fieldRequests, loadRequest, saveCalls, serverRecord>>
  /\ UNCHANGED listVars

\* the debounce timer fires: triggerAutoRefresh
triggerAutoRefresh ==
  /\ autoRefreshTimeoutId
  /\ autoRefreshTimeoutId' = FALSE
  /\ IF \/ page2Data.selectedObjectApiName = NULL
        \/ isListMode /\ selectedFieldApiNames = <<>>
        \/ isAggregateMode /\ aggregateFunction = NULL
     THEN UNCHANGED previewVars
     ELSE executeQueryPreview
  /\ PreviewFrame

\* executePreviewQuery of call i answers (answers may overtake each other)
executeQueryPreview_resolved(i) ==
  /\ i \in 1..Len(previewRequests)
  /\ previewRequests' = RemoveAt(previewRequests, i)
  /\ queryResults' = PreviewRows(previewRequests[i])
  /\ isQueryLoading' = FALSE
  /\ UNCHANGED <<queryError, lastPreview, autoRefreshTimeoutId>>
  /\ PreviewFrame

\* executePreviewQuery of call i fails
executeQueryPreview_rejected(i) ==
  /\ i \in 1..Len(previewRequests)
  /\ previewRequests' = RemoveAt(previewRequests, i)
  /\ queryError' = "Error executing preview query"
  /\ isQueryLoading' = FALSE
  /\ UNCHANGED <<queryResults, lastPreview, autoRefreshTimeoutId>>
  /\ PreviewFrame

(***************************************************************************)
(* SpecPreview: edits of the query while previews are in flight.           *)
(***************************************************************************)
NextPreview ==
  \/ loadObjects_resolved
  \/ handleObjectSelect("Account")
  \/ \E i \in 1..MaxPending : loadFieldsForObject_resolved(i)
  \/ \E f \in SampleCheckedFields, b \in BOOLEAN : handleFieldCheckboxChange(f, b)
  \/ \E t \in {"List", "Aggregate"} : handleQueryTypeChange(t)
  \/ \E a \in SampleAggregateFunctions :
       isAggregateMode /\ handleAggregateFunctionChange(a)
  \/ \E l \in SampleLimits : isListMode /\ handleQueryLimitChange(l)
  \/ triggerAutoRefresh
  \/ \E i \in 1..MaxPreviews : executeQueryPreview_resolved(i)
  \/ \E i \in 1..MaxPreviews : executeQueryPreview_rejected(i)

SpecPreview == Init /\ [][NextPreview]_vars

\* C14: once no executePreviewQuery call is in flight, the rows shown in the
\* preview table are those of the preview query issued last
PreviewShowsLastQuery ==
  (previewRequests = <<>> /\ queryResults # <<>>) => queryResults = lastPreview[1]

(***************************************************************************)
(* SpecIds: conditions are added, completed and removed, owner filters     *)
(* toggled, the record saved and opened again.                             *)
(***************************************************************************)
MaxRows == 2           \* rows handleAddCondition may add to in this specification

NextIds ==
  \/ loadObjects_resolved
  \/ ~isLoading /\ handleObjectSelect("Account")
  \/ \E i \in 1..MaxPending : loadFieldsForObject_resolved(i)
  \/ ~isLoading /\ handleFieldCheckboxChange("Name", TRUE)
  \/ ~isLoading /\ Len(whereConditions) < MaxRows /\ handleAddCondition
  \/ \E id \in ConditionIds : ~isLoading /\ handleRemoveCondition(id)
  \/ \E id \in ConditionIds : ~isLoading /\ handleConditionFieldChange(id, "Name")
  \/ \E id \in ConditionIds : ~isLoading /\ handleConditionOperatorChange(id, "equals")
  \/ \E id \in ConditionIds : ~isLoading /\ handleConditionValueChange(id, <<"a">>)
  \/ ~isLoading /\ hasOwnerField /\ handleOwnerFilterToggle("me")
  \/ ~isLoading /\ handleNameChange(<<"D">>)
  \/ ~isLoading /\ handleDashboardComponentChange("cmpList")
  \/ ~isLoading /\ handleSave
  \/ \E i \in 1..MaxSaves : handleSave_resolved(i)
  \/ connectedCallback_edit
  \/ loadExistingData_resolved
  \/ \E i \in 1..MaxPending : deserializeQueryConfig_resolved(i)

SpecIds == Init /\ [][NextIds]_vars

\* C15: no two entries of whereConditions share an id
ConditionIdsUnique ==
  \A i, j \in 1..Len(whereConditions) :
    whereConditions[i].id = whereConditions[j].id => i = j

====
